---- MODULE Spec2Model ----
(***************************************************************************)
(* A model of the insight pipeline of shopifly: the two storage backends   *)
(* (storage/sqlite.py, storage/airtable.py), the classification engine     *)
(* (analysis/classifier.py) and the scrape / classify commands (main.py).  *)
(*                                                                         *)
(* A raw row is modelled by its key (source_id), its processed flag, its   *)
(* identifier, and one field content that stands for all the payload     *)
(* columns the key does not determine (url, title, content, author,        *)
(* metadata).  Payload values are opaque tokens; the [:100000] cut that    *)
(* both backends apply to content is not modelled.                         *)
(***************************************************************************)
EXTENDS Integers, Sequences, FiniteSets, TLC

\* ------------------------------------------------------------------ bounds

MaxSourceId == 2
MaxLimit == 2

SourceIds == 1..MaxSourceId
Limits == 0..MaxLimit

\* Two payloads are enough to tell a re-scrape with changed payload from one
\* with the same payload.
Contents == {"text_a", "text_b"}

Backends == {"sqlite", "airtable"}

\* Where an injected storage error strikes: nowhere, in the existence check
\* (connection, SELECT, table.first) or in the write (INSERT/UPDATE, commit,
\* table.create, table.update).
FailPoints == {"none", "read", "write"}

VARIABLES
    backend,        \* which StorageBackend the run was started with
    raw_sources,    \* the raw_sources table / "Raw Sources" table, in row order
    insights,       \* the insights table / "Insights" table, in row order
    last,           \* the last storage call: its arguments and what it returned
    datapoints,     \* classify_batch: the batch, in submission order
    concurrency,    \* classify_batch: the concurrency argument
    semaphore,      \* classify_batch: the value of its asyncio.Semaphore
    task,           \* classify_batch: one classify_with_semaphore task per record
    done_queue,     \* as_completed: finished tasks not yet handed to the loop
    yielded,        \* the insights classify_batch has yielded, in order
    pc,             \* where the classify_batch generator stands
    handled,        \* what the except clause around the latest storage write printed
    sqlite_db,      \* side by side: the tables of a SQLiteStorage
    airtable_base,  \* side by side: the tables of an AirtableStorage
    reads,          \* side by side: what the latest call returned in each
    scraped_insights,   \* InterviewReranker.scraped_insights
    interview_insights, \* InterviewReranker.interview_insights
    opportunities,  \* what the latest rank_opportunities call returned
    ranked,         \* whether a rank_opportunities call has returned
    top,            \* the latest get_top_opportunities call: n and its result
    derived,        \* has_wtp_data and wtp_midpoint as read off an insight
    interview_participants, \* the interview_participants table, in row order
    lookup,         \* the latest InterviewStorage call and what it returned
    invocations,    \* classify_batch calls running at once on one Classifier
    callers         \* storage saves running at once, each at its own step

storeVars == <<backend, raw_sources, insights>>

batchVars == <<datapoints, concurrency, semaphore, task, done_queue, yielded, pc>>

pairVars == <<sqlite_db, airtable_base, reads>>

rankVars == <<scraped_insights, interview_insights, opportunities, ranked,
              top, derived>>

pipelineVars == <<storeVars, last, batchVars, handled>>

restVars == <<interview_participants, lookup, invocations, callers>>

\* ------------------------------------------------------------ pure helpers

None == "None"

Min(a, b) == IF a < b THEN a ELSE b

Take(s, n) == SubSeq(s, 1, Min(n, Len(s)))

Range(s) == {s[i] : i \in 1..Len(s)}

\* Rows of a table whose source_id is sid, in row order.
MatchSourceId(tbl, sid) == SelectSeq(tbl, LAMBDA r : r.source_id = sid)

\* str(cursor.lastrowid) / str(existing["id"]): the decimal text of the rowid.
SQLiteId(n) == ToString(n)

\* An Airtable record identifier: an opaque string the service assigns, one
\* per created record.
AirtableId(n) == "rec" \o ToString(n)

\* The outcome of a storage call: the table afterwards, the returned value and
\* whether the call raised instead of returning.
Outcome(tbl, ret, raised) == [tbl |-> tbl, ret |-> ret, raised |-> raised]

\* --------------------------------------------------- storage/sqlite.py

RawRow(id, datapoint) ==
    [id |-> id, source_id |-> datapoint.source_id,
     content |-> datapoint.content, processed |-> FALSE]

\* A save_raw_datapoint that skips the duplicate check.
SQLite_save_raw_datapoint_NoCheck(tbl, datapoint, fail) ==
    IF fail # "none" THEN Outcome(tbl, None, TRUE)
    ELSE Outcome(Append(tbl, RawRow(Len(tbl) + 1, datapoint)),
                 SQLiteId(Len(tbl) + 1), FALSE)

\* A save_raw_datapoint that overwrites the stored row on a duplicate key
\* (INSERT OR REPLACE): the row gets a new rowid and its default flag.
SQLite_save_raw_datapoint_Replace(tbl, datapoint, fail) ==
    LET existing == MatchSourceId(tbl, datapoint.source_id)
        kept == SelectSeq(tbl, LAMBDA r : r.source_id # datapoint.source_id)
    IN  IF fail # "none" THEN Outcome(tbl, None, TRUE)
        ELSE IF existing # <<>>
        THEN Outcome(Append(kept, RawRow(existing[1].id, datapoint)),
                     SQLiteId(existing[1].id), FALSE)
        ELSE Outcome(Append(tbl, RawRow(Len(tbl) + 1, datapoint)),
                     SQLiteId(Len(tbl) + 1), FALSE)

\* SELECT id ... WHERE source_id = ?; return the existing id, or INSERT a row
\* (processed takes its DEFAULT FALSE), commit and return lastrowid.  The id
\* column is AUTOINCREMENT and no row is ever deleted, so the new rowid is the
\* row count plus one.  An sqlite3 error leaves through the try/finally: the
\* connection is closed without a commit and the exception reaches the caller.
SQLite_save_raw_datapoint(tbl, datapoint, fail) ==
    LET existing == MatchSourceId(tbl, datapoint.source_id)
    IN  IF fail = "read" THEN Outcome(tbl, None, TRUE)
        ELSE IF existing # <<>>
        THEN Outcome(tbl, SQLiteId(existing[1].id), FALSE)
        ELSE IF fail = "write" THEN Outcome(tbl, None, TRUE)
        ELSE Outcome(Append(tbl, RawRow(Len(tbl) + 1, datapoint)),
                     SQLiteId(Len(tbl) + 1), FALSE)

\* The columns the SELECT of get_unprocessed_raw_data names (dict(row)).
RawFields(r) == [source_id |-> r.source_id, content |-> r.content]

Project(rows) == [i \in 1..Len(rows) |-> RawFields(rows[i])]

\* A get_unprocessed_raw_data whose query forgot the WHERE clause.
SQLite_get_unprocessed_raw_data_NoFilter(tbl, limit) ==
    Project(Take(tbl, limit))

\* SELECT ... FROM raw_sources WHERE processed = FALSE OR processed IS NULL
\* LIMIT ?  -- no ORDER BY: rows come in the table's scan order (rowid order).
\* limit is taken from Nat here (a negative LIMIT means no limit in SQLite).
SQLite_get_unprocessed_raw_data(tbl, limit) ==
    Project(Take(SelectSeq(tbl, LAMBDA r : r.processed = FALSE), limit))

MarkRows(tbl, sid) ==
    [i \in 1..Len(tbl) |->
        IF tbl[i].source_id = sid THEN [tbl[i] EXCEPT !.processed = TRUE]
        ELSE tbl[i]]

\* The UPDATE without its WHERE clause: every row is flagged.
SQLite_mark_as_processed_All(tbl, sid, fail) ==
    IF fail # "none" THEN Outcome(tbl, None, TRUE)
    ELSE Outcome([i \in 1..Len(tbl) |-> [tbl[i] EXCEPT !.processed = TRUE]],
                 None, FALSE)

\* UPDATE raw_sources SET processed = TRUE WHERE source_id = ?; commit.
\* Returns None; an UPDATE that matches no row is not an error.
SQLite_mark_as_processed(tbl, sid, fail) ==
    IF fail # "none" THEN Outcome(tbl, None, TRUE)
    ELSE Outcome(MarkRows(tbl, sid), None, FALSE)

InsightRow(id, insight) ==
    [id |-> id, source_id |-> insight.source_id,
     category |-> insight.category,
     secondary_categories |-> insight.secondary_categories,
     frustration_level |-> insight.frustration_level,
     clarity_score |-> insight.clarity_score]

\* A save_insight that skips the duplicate check.
SQLite_save_insight_NoCheck(tbl, insight, fail) ==
    IF fail # "none" THEN Outcome(tbl, None, TRUE)
    ELSE Outcome(Append(tbl, InsightRow(Len(tbl) + 1, insight)),
                 SQLiteId(Len(tbl) + 1), FALSE)

\* A save_insight that catches the storage error and returns None.
SQLite_save_insight_Swallow(tbl, insight, fail) ==
    LET existing == MatchSourceId(tbl, insight.source_id)
    IN  IF fail = "read" THEN Outcome(tbl, None, FALSE)
        ELSE IF existing # <<>>
        THEN Outcome(tbl, SQLiteId(existing[1].id), FALSE)
        ELSE IF fail = "write" THEN Outcome(tbl, None, FALSE)
        ELSE Outcome(Append(tbl, InsightRow(Len(tbl) + 1, insight)),
                     SQLiteId(Len(tbl) + 1), FALSE)

\* SELECT id FROM insights WHERE source_id = ?; return the existing id, or
\* INSERT, commit and return lastrowid.  Errors leave through try/finally.
SQLite_save_insight(tbl, insight, fail) ==
    LET existing == MatchSourceId(tbl, insight.source_id)
    IN  IF fail = "read" THEN Outcome(tbl, None, TRUE)
        ELSE IF existing # <<>>
        THEN Outcome(tbl, SQLiteId(existing[1].id), FALSE)
        ELSE IF fail = "write" THEN Outcome(tbl, None, TRUE)
        ELSE Outcome(Append(tbl, InsightRow(Len(tbl) + 1, insight)),
                     SQLiteId(Len(tbl) + 1), FALSE)

\* SELECT * FROM insights WHERE category = ?: the matching rows, as dicts.
SQLite_get_insights_by_category(tbl, category) ==
    SelectSeq(tbl, LAMBDA r : r.category = category)

\* SELECT * FROM insights.
SQLite_get_all_insights(tbl) == tbl

\* SELECT category, COUNT(*) FROM insights GROUP BY category, as a dict.
GroupByCategory(tbl) ==
    [c \in {tbl[i].category : i \in 1..Len(tbl)} |->
        Cardinality({i \in 1..Len(tbl) : tbl[i].category = c})]

\* INSERT INTO clusters ...; commit; return str(cursor.lastrowid).  Nothing
\* is looked up first: every call adds a row.
SQLite_save_cluster(tbl, name, category) ==
    Outcome(Append(tbl, [id |-> Len(tbl) + 1, name |-> name,
                         category |-> category]),
            SQLiteId(Len(tbl) + 1), FALSE)

\* INSERT INTO opportunity_scores ...; commit; return str(cursor.lastrowid).
\* cluster_id is stored as given (foreign keys are not enforced).
SQLite_save_opportunity_score(tbl, cluster_id) ==
    Outcome(Append(tbl, [id |-> Len(tbl) + 1, cluster_id |-> cluster_id]),
            SQLiteId(Len(tbl) + 1), FALSE)

\* A get_stats that reports no clusters and no scores.
SQLite_get_stats_Partial(db) ==
    [raw_data_points |-> Len(db.raw),
     classified_insights |-> Len(db.insights),
     problem_clusters |-> 0, scored_opportunities |-> 0,
     category_breakdown |-> GroupByCategory(db.insights)]

\* get_stats: SELECT COUNT(*) of each of the four tables and the category
\* breakdown.
SQLite_get_stats(db) ==
    [raw_data_points |-> Len(db.raw),
     classified_insights |-> Len(db.insights),
     problem_clusters |-> Len(db.clusters),
     scored_opportunities |-> Len(db.scores),
     category_breakdown |-> GroupByCategory(db.insights)]

\* ------------------------------------------------- storage/airtable.py

\* A save_raw_datapoint that updates the record it finds with the fields of
\* a fresh one (an upsert): the content is replaced and the processed
\* checkbox emptied.
Airtable_save_raw_datapoint_Upsert(tbl, datapoint, fail) ==
    LET existing == MatchSourceId(tbl, datapoint.source_id)
    IN  IF fail = "read" THEN Outcome(tbl, None, TRUE)
        ELSE IF existing # <<>>
        THEN Outcome([i \in 1..Len(tbl) |->
                         IF tbl[i].id = existing[1].id
                         THEN RawRow(tbl[i].id, datapoint) ELSE tbl[i]],
                     existing[1].id, FALSE)
        ELSE IF fail = "write" THEN Outcome(tbl, None, TRUE)
        ELSE Outcome(Append(tbl, RawRow(AirtableId(Len(tbl) + 1), datapoint)),
                     AirtableId(Len(tbl) + 1), FALSE)

\* table.first(formula=match({"source_id": ...})); return existing["id"], or
\* table.create(...) and return the new record's id.  The processed checkbox
\* is not among the created fields, so it starts empty.  No try/except: an
\* error of the Airtable client reaches the caller.
Airtable_save_raw_datapoint(tbl, datapoint, fail) ==
    LET existing == MatchSourceId(tbl, datapoint.source_id)
    IN  IF fail = "read" THEN Outcome(tbl, None, TRUE)
        ELSE IF existing # <<>> THEN Outcome(tbl, existing[1].id, FALSE)
        ELSE IF fail = "write" THEN Outcome(tbl, None, TRUE)
        ELSE Outcome(Append(tbl, RawRow(AirtableId(Len(tbl) + 1), datapoint)),
                     AirtableId(Len(tbl) + 1), FALSE)

\* table.all(formula="{processed} = ''", max_records=limit), each record's
\* fields.  Records come in the table's own order.
Airtable_get_unprocessed_raw_data(tbl, limit) ==
    Project(Take(SelectSeq(tbl, LAMBDA r : r.processed = FALSE), limit))

MarkFirst(tbl, sid) ==
    LET hits == {i \in 1..Len(tbl) : tbl[i].source_id = sid}
        first == CHOOSE i \in hits : \A j \in hits : i <= j
    IN  IF hits = {} THEN tbl
        ELSE [tbl EXCEPT ![first].processed = TRUE]

\* record = table.first(...); if record: table.update(id, {"processed": True}).
Airtable_mark_as_processed(tbl, sid, fail) ==
    IF fail = "read" THEN Outcome(tbl, None, TRUE)
    ELSE IF MatchSourceId(tbl, sid) = <<>> THEN Outcome(tbl, None, FALSE)
    ELSE IF fail = "write" THEN Outcome(tbl, None, TRUE)
    ELSE Outcome(MarkFirst(tbl, sid), None, FALSE)

\* A save_insight that creates a record without looking for an existing one.
Airtable_save_insight_NoCheck(tbl, insight, fail) ==
    IF fail # "none" THEN Outcome(tbl, None, TRUE)
    ELSE Outcome(Append(tbl, InsightRow(AirtableId(Len(tbl) + 1), insight)),
                 AirtableId(Len(tbl) + 1), FALSE)

\* table.first(...) on the Insights table; existing id, or table.create.
Airtable_save_insight(tbl, insight, fail) ==
    LET existing == MatchSourceId(tbl, insight.source_id)
    IN  IF fail = "read" THEN Outcome(tbl, None, TRUE)
        ELSE IF existing # <<>> THEN Outcome(tbl, existing[1].id, FALSE)
        ELSE IF fail = "write" THEN Outcome(tbl, None, TRUE)
        ELSE Outcome(Append(tbl, InsightRow(AirtableId(Len(tbl) + 1), insight)),
                     AirtableId(Len(tbl) + 1), FALSE)

\* r["fields"] of an Insights record: the stored fields without the record id.
InsightFields(r) ==
    [source_id |-> r.source_id, category |-> r.category,
     secondary_categories |-> r.secondary_categories,
     frustration_level |-> r.frustration_level,
     clarity_score |-> r.clarity_score]

\* table.all(formula=match({"category": category.value})), each record's fields.
Airtable_get_insights_by_category(tbl, category) ==
    LET hits == SelectSeq(tbl, LAMBDA r : r.category = category)
    IN  [i \in 1..Len(hits) |-> InsightFields(hits[i])]

\* table.all(), each record's fields.
Airtable_get_all_insights(tbl) == [i \in 1..Len(tbl) |-> InsightFields(tbl[i])]

\* The loop of get_stats over insights_table.all():
\* category_counts[cat] = category_counts.get(cat, 0) + 1.
RECURSIVE CountCategories(_, _)
CountCategories(tbl, counts) ==
    IF tbl = <<>> THEN counts
    ELSE LET cat == Head(tbl).category
             seen == IF cat \in DOMAIN counts THEN counts[cat] ELSE 0
         IN  CountCategories(Tail(tbl),
                 [c \in DOMAIN counts \cup {cat} |->
                     IF c = cat THEN seen + 1 ELSE counts[c]])

\* table.create({...}) on "Problem Clusters"; return record["id"].
Airtable_save_cluster(tbl, name, category) ==
    Outcome(Append(tbl, [id |-> AirtableId(Len(tbl) + 1), name |-> name,
                         category |-> category]),
            AirtableId(Len(tbl) + 1), FALSE)

\* table.create({...}) on "Opportunity Scores"; return record["id"].
Airtable_save_opportunity_score(tbl, cluster_id) ==
    Outcome(Append(tbl, [id |-> AirtableId(Len(tbl) + 1),
                         cluster_id |-> cluster_id]),
            AirtableId(Len(tbl) + 1), FALSE)

\* get_stats: len(table.all()) of each of the four tables and the category
\* breakdown.
Airtable_get_stats(db) ==
    [raw_data_points |-> Len(db.raw),
     classified_insights |-> Len(db.insights),
     problem_clusters |-> Len(db.clusters),
     scored_opportunities |-> Len(db.scores),
     category_breakdown |-> CountCategories(db.insights, <<>>)]

\* ----------------------------------------------------- storage/base.py
\* The StorageBackend interface: each call goes to the backend get_storage
\* built.

save_raw_datapoint(b, tbl, datapoint, fail) ==
    IF b = "sqlite" THEN SQLite_save_raw_datapoint(tbl, datapoint, fail)
    ELSE Airtable_save_raw_datapoint(tbl, datapoint, fail)

get_unprocessed_raw_data(b, tbl, limit) ==
    IF b = "sqlite" THEN SQLite_get_unprocessed_raw_data(tbl, limit)
    ELSE Airtable_get_unprocessed_raw_data(tbl, limit)

mark_as_processed(b, tbl, sid, fail) ==
    IF b = "sqlite" THEN SQLite_mark_as_processed(tbl, sid, fail)
    ELSE Airtable_mark_as_processed(tbl, sid, fail)

save_insight(b, tbl, insight, fail) ==
    IF b = "sqlite" THEN SQLite_save_insight(tbl, insight, fail)
    ELSE Airtable_save_insight(tbl, insight, fail)

\* ------------------------------------------------- storage call sequences
\* A caller (scraper loop, classify loop, test) issuing storage calls one
\* after the other against one backend.  last records the latest call.

Categories == {"analytics", "other"}
FrustrationLevels == {1, 5}

Datapoints == [source_id : SourceIds, content : Contents]

ClassifiedInsights ==
    [source_id : SourceIds, category : Categories,
     secondary_categories : {<<>>},
     frustration_level : FrustrationLevels, clarity_score : {3}]

NoPrior == [sid |-> 0, ret |-> None]

\* The two tables as a call finds them.
Tables == [raw |-> raw_sources, insights |-> insights]

\* No call followed in the same try block.
NoFollow == [called |-> FALSE, fault |-> "none", raised |-> FALSE]

NoCall ==
    [op |-> "none", sid |-> 0, arg |-> None, fault |-> "none", ret |-> None,
     raised |-> FALSE, before |-> [raw |-> <<>>, insights |-> <<>>],
     result |-> <<>>, prior |-> NoPrior, follow |-> NoFollow]

\* What the next call remembers of this one: the key and the identifier of a
\* save that returned.
Summary(call) ==
    IF call.op \in {"save_raw", "save_insight"} /\ ~call.raised
    THEN [sid |-> call.sid, ret |-> call.ret]
    ELSE NoPrior

\* The record of one call: fault is the storage error injected into it, before
\* the tables the call found, result what a read returned, prior the call that
\* came just before, follow the mark_as_processed that _classify issues after
\* a save_insight in the same try block.
Call(op, sid, arg, fault, o, before, result, prev) ==
    [op |-> op, sid |-> sid, arg |-> arg, fault |-> fault, ret |-> o.ret,
     raised |-> o.raised, before |-> before, result |-> result,
     prior |-> Summary(prev), follow |-> NoFollow]

\* No classify_batch call is under way.
NoBatch ==
    /\ datapoints = <<>>
    /\ concurrency = 0
    /\ semaphore = 0
    /\ task = <<>>
    /\ done_queue = <<>>
    /\ yielded = <<>>
    /\ pc = "idle"

EmptyStore ==
    /\ backend \in Backends
    /\ raw_sources = <<>>
    /\ insights = <<>>
    /\ last = NoCall
    /\ handled = ""

\* Two fresh stores, one per backend, with no call made on them yet.
EmptyTables ==
    [raw |-> <<>>, insights |-> <<>>, clusters |-> <<>>, scores |-> <<>>]

NoRead == [op |-> "none", arg |-> None, sqlite |-> <<>>, airtable |-> <<>>]

NoPair ==
    /\ sqlite_db = EmptyTables
    /\ airtable_base = EmptyTables
    /\ reads = NoRead

NoDerived ==
    [read |-> FALSE, has_wtp_data |-> FALSE,
     wtp_midpoint |-> [defined |-> FALSE, value |-> [n |-> 0, d |-> 1]]]

NoTop == [called |-> FALSE, n |-> 0, result |-> <<>>]

\* No InterviewReranker has been built.
NoRank ==
    /\ scraped_insights = <<>>
    /\ interview_insights = <<>>
    /\ opportunities = <<>>
    /\ ranked = FALSE
    /\ top = NoTop
    /\ derived = NoDerived

\* No command of main.py runs and nothing is stored.
NoPipeline ==
    /\ backend = "sqlite"
    /\ raw_sources = <<>>
    /\ insights = <<>>
    /\ last = NoCall
    /\ handled = ""
    /\ NoBatch

\* No InterviewStorage call was made, no classify_batch calls run side by
\* side and no storage saves are under way.
NoLookup == [op |-> "none", participant |-> None, ret |-> None]

NoRest ==
    /\ interview_participants = <<>>
    /\ lookup = NoLookup
    /\ invocations = <<>>
    /\ callers = <<>>

InitStore == EmptyStore /\ NoBatch /\ NoPair /\ NoRank /\ NoRest

SaveRaw ==
    \E dp \in Datapoints, f \in FailPoints :
        LET o == save_raw_datapoint(backend, raw_sources, dp, f)
        IN  /\ raw_sources' = o.tbl
            /\ last' = Call("save_raw", dp.source_id, dp.content, f, o,
                            Tables, <<>>, last)
            /\ UNCHANGED <<backend, insights>>
            /\ UNCHANGED <<batchVars, handled, pairVars, rankVars, restVars>>

MarkProcessed ==
    \E sid \in SourceIds, f \in FailPoints :
        LET o == mark_as_processed(backend, raw_sources, sid, f)
        IN  /\ raw_sources' = o.tbl
            /\ last' = Call("mark_processed", sid, None, f, o, Tables,
                            <<>>, last)
            /\ UNCHANGED <<backend, insights>>
            /\ UNCHANGED <<batchVars, handled, pairVars, rankVars, restVars>>

GetUnprocessed ==
    \E limit \in Limits :
        LET rows == get_unprocessed_raw_data(backend, raw_sources, limit)
        IN  /\ last' = Call("get_unprocessed", 0, limit, "none",
                            Outcome(raw_sources, None, FALSE), Tables, rows,
                            last)
            /\ UNCHANGED <<backend, raw_sources, insights>>
            /\ UNCHANGED <<batchVars, handled, pairVars, rankVars, restVars>>

SaveInsight ==
    \E ins \in ClassifiedInsights, f \in FailPoints :
        LET o == save_insight(backend, insights, ins, f)
        IN  /\ insights' = o.tbl
            /\ last' = Call("save_insight", ins.source_id, ins, f, o,
                            Tables, <<>>, last)
            /\ UNCHANGED <<backend, raw_sources>>
            /\ UNCHANGED <<batchVars, handled, pairVars, rankVars, restVars>>

vars == <<pipelineVars, pairVars, rankVars, restVars>>

\* The raw-record operations and save_insight on one store, in any order,
\* no storage error striking; the insight saved for a record is always the
\* same one.
NextFlag ==
    \/ SaveRaw /\ last'.fault = "none"
    \/ MarkProcessed /\ last'.fault = "none"
    \/ GetUnprocessed
    \/ /\ SaveInsight
       /\ last'.fault = "none"
       /\ last'.arg.category = "analytics"
       /\ last'.arg.frustration_level = 5

SpecFlag == InitStore /\ [][NextFlag]_vars

NextRaw == SaveRaw \/ MarkProcessed \/ GetUnprocessed

SpecRaw == InitStore /\ [][NextRaw]_vars

NextInsight == SaveInsight

SpecInsight == InitStore /\ [][NextInsight]_vars

\* ------------------------------------------- the two backends side by side
\* One caller issuing the same StorageBackend call, with the same arguments,
\* on a SQLiteStorage and on an AirtableStorage that both started empty.  No
\* storage error strikes.

PairDatapoints == [source_id : SourceIds, content : {"text_a"}]

PairInsights ==
    [source_id : SourceIds, category : Categories,
     secondary_categories : {<<>>}, frustration_level : {5},
     clarity_score : {3}]

Read(op, arg, sq, at) == [op |-> op, arg |-> arg, sqlite |-> sq, airtable |-> at]

PairSaveRaw ==
    \E dp \in PairDatapoints :
        /\ sqlite_db' = [sqlite_db EXCEPT !.raw =
                SQLite_save_raw_datapoint(@, dp, "none").tbl]
        /\ airtable_base' = [airtable_base EXCEPT !.raw =
                Airtable_save_raw_datapoint(@, dp, "none").tbl]
        /\ reads' = Read("save_raw", dp.source_id, <<>>, <<>>)
        /\ UNCHANGED <<pipelineVars, rankVars, restVars>>

PairMarkProcessed ==
    \E sid \in SourceIds :
        /\ sqlite_db' = [sqlite_db EXCEPT !.raw =
                SQLite_mark_as_processed(@, sid, "none").tbl]
        /\ airtable_base' = [airtable_base EXCEPT !.raw =
                Airtable_mark_as_processed(@, sid, "none").tbl]
        /\ reads' = Read("mark_processed", sid, <<>>, <<>>)
        /\ UNCHANGED <<pipelineVars, rankVars, restVars>>

PairSaveInsight ==
    \E ins \in PairInsights :
        /\ sqlite_db' = [sqlite_db EXCEPT !.insights =
                SQLite_save_insight(@, ins, "none").tbl]
        /\ airtable_base' = [airtable_base EXCEPT !.insights =
                Airtable_save_insight(@, ins, "none").tbl]
        /\ reads' = Read("save_insight", ins.source_id, <<>>, <<>>)
        /\ UNCHANGED <<pipelineVars, rankVars, restVars>>

PairGetUnprocessed ==
    \E limit \in Limits :
        /\ reads' = Read("get_unprocessed", limit,
                SQLite_get_unprocessed_raw_data(sqlite_db.raw, limit),
                Airtable_get_unprocessed_raw_data(airtable_base.raw, limit))
        /\ UNCHANGED <<sqlite_db, airtable_base, pipelineVars, rankVars, restVars>>

PairGetInsightsByCategory ==
    \E category \in Categories :
        /\ reads' = Read("get_insights_by_category", category,
                SQLite_get_insights_by_category(sqlite_db.insights, category),
                Airtable_get_insights_by_category(airtable_base.insights,
                                                  category))
        /\ UNCHANGED <<sqlite_db, airtable_base, pipelineVars, rankVars, restVars>>

PairGetAllInsights ==
    /\ reads' = Read("get_all_insights", None,
            SQLite_get_all_insights(sqlite_db.insights),
            Airtable_get_all_insights(airtable_base.insights))
    /\ UNCHANGED <<sqlite_db, airtable_base, pipelineVars, rankVars, restVars>>

PairGetStats ==
    /\ reads' = Read("get_stats", None,
            SQLite_get_stats(sqlite_db), Airtable_get_stats(airtable_base))
    /\ UNCHANGED <<sqlite_db, airtable_base, pipelineVars, rankVars, restVars>>

NextPair ==
    \/ PairSaveRaw
    \/ PairMarkProcessed
    \/ PairSaveInsight
    \/ PairGetUnprocessed
    \/ PairGetInsightsByCategory
    \/ PairGetAllInsights
    \/ PairGetStats

SpecPair == InitStore /\ [][NextPair]_vars

\* The same caller also saving clusters and opportunity scores: one cluster
\* saved again and again, and scores of the first cluster.  Both saves add
\* a row on every call, so the number of calls is capped.
MaxClusters == 2

MaxScores == 2

PairSaveCluster ==
    /\ Len(sqlite_db.clusters) < MaxClusters
    /\ sqlite_db' = [sqlite_db EXCEPT !.clusters =
            SQLite_save_cluster(@, "cluster", "analytics").tbl]
    /\ airtable_base' = [airtable_base EXCEPT !.clusters =
            Airtable_save_cluster(@, "cluster", "analytics").tbl]
    /\ reads' = Read("save_cluster", "cluster", <<>>, <<>>)
    /\ UNCHANGED <<pipelineVars, rankVars, restVars>>

PairSaveOpportunityScore ==
    /\ Len(sqlite_db.scores) < MaxScores
    /\ sqlite_db' = [sqlite_db EXCEPT !.scores =
            SQLite_save_opportunity_score(@, SQLiteId(1)).tbl]
    /\ airtable_base' = [airtable_base EXCEPT !.scores =
            Airtable_save_opportunity_score(@, AirtableId(1)).tbl]
    /\ reads' = Read("save_opportunity_score", "cluster", <<>>, <<>>)
    /\ UNCHANGED <<pipelineVars, rankVars, restVars>>

NextStats ==
    \/ PairSaveRaw
    \/ PairMarkProcessed
    \/ PairSaveInsight
    \/ PairSaveCluster
    \/ PairSaveOpportunityScore
    \/ PairGetStats

SpecStats == InitStore /\ [][NextStats]_vars

\* ------------------------------------------------ saves running at once
\* Two callers (two commands, each with its own connection or client) each
\* running one save_raw_datapoint or save_insight on the same store.  A save
\* is two statements, the existence check and the write, and the other
\* caller's statements can come between them.

RaceDatapoint(sid) == [source_id |-> sid, content |-> "text_a"]

RaceInsight(sid) ==
    [source_id |-> sid, category |-> "analytics", secondary_categories |-> <<>>,
     frustration_level |-> 5, clarity_score |-> 3]

Caller(op, sid) ==
    [op |-> op, sid |-> sid, pc |-> "start", found |-> FALSE,
     ret |-> None, raised |-> FALSE]

\* The table a save works on.
TableOf(op) == IF op = "save_raw" THEN raw_sources ELSE insights

\* The row a save writes, under the given id.
RowOf(op, id, sid) ==
    IF op = "save_raw" THEN RawRow(id, RaceDatapoint(sid))
    ELSE InsightRow(id, RaceInsight(sid))

\* The write of a save that found no row.  SQLite: INSERT; source_id is
\* UNIQUE in both tables, so the INSERT raises sqlite3.IntegrityError when a
\* row with the source_id has been committed meanwhile, and the error
\* leaves through try/finally.  Airtable: table.create, which appends a
\* record whatever the table holds.
Insert(b, tbl, op, sid) ==
    IF b = "sqlite"
    THEN IF MatchSourceId(tbl, sid) # <<>> THEN Outcome(tbl, None, TRUE)
         ELSE Outcome(Append(tbl, RowOf(op, Len(tbl) + 1, sid)),
                      SQLiteId(Len(tbl) + 1), FALSE)
    ELSE Outcome(Append(tbl, RowOf(op, AirtableId(Len(tbl) + 1), sid)),
                 AirtableId(Len(tbl) + 1), FALSE)

InitRace ==
    /\ EmptyStore /\ NoBatch /\ NoPair /\ NoRank
    /\ interview_participants = <<>>
    /\ lookup = NoLookup
    /\ invocations = <<>>
    /\ \E op1, op2 \in {"save_raw", "save_insight"}, sid1, sid2 \in SourceIds :
          callers = <<Caller(op1, sid1), Caller(op2, sid2)>>

\* The existence check: SELECT id ... WHERE source_id = ? / table.first.  A
\* row found ends the save with the row's id.
RaceCheck(c) ==
    LET existing == MatchSourceId(TableOf(callers[c].op), callers[c].sid)
    IN  /\ callers[c].pc = "start"
        /\ callers' = [callers EXCEPT ![c] =
              IF existing # <<>>
              THEN [@ EXCEPT !.pc = "done", !.found = TRUE,
                             !.ret = IF backend = "sqlite"
                                     THEN SQLiteId(existing[1].id)
                                     ELSE existing[1].id]
              ELSE [@ EXCEPT !.pc = "checked"]]
        /\ UNCHANGED <<pipelineVars, pairVars, rankVars,
                       interview_participants, lookup, invocations>>

\* The write of a caller whose check found nothing.
RaceWrite(c) ==
    LET op == callers[c].op
        o == Insert(backend, TableOf(op), op, callers[c].sid)
    IN  /\ callers[c].pc = "checked"
        /\ callers' = [callers EXCEPT ![c].pc = "done", ![c].ret = o.ret,
                                      ![c].raised = o.raised]
        /\ IF op = "save_raw"
           THEN raw_sources' = o.tbl /\ UNCHANGED insights
           ELSE insights' = o.tbl /\ UNCHANGED raw_sources
        /\ UNCHANGED <<backend, last, batchVars, handled, pairVars, rankVars,
                       interview_participants, lookup, invocations>>

NextRace == \E c \in 1..Len(callers) : RaceCheck(c) \/ RaceWrite(c)

SpecRace == InitRace /\ [][NextRace]_vars

\* ------------------------------------------------------ storage properties

AtMostOnePerSourceId(tbl) ==
    \A i, j \in 1..Len(tbl) : tbl[i].source_id = tbl[j].source_id => i = j

\* The identifier a save returns for a stored row.
ReturnedId(row) == IF backend = "sqlite" THEN SQLiteId(row.id) ELSE row.id

Unprocessed(tbl) == {i \in 1..Len(tbl) : ~tbl[i].processed}

\* C1: save_raw is idempotent by source_id.  A save_raw that returns raises
\* the raw-record count by 1 when the source_id was not stored and by 0 when
\* it was, and returns the identifier of the row stored under that
\* source_id; a second save_raw of the same source_id right after it returns
\* the same identifier and adds nothing; the table never holds two rows with
\* one source_id.
C1_IdempotentRawSave ==
    /\ AtMostOnePerSourceId(raw_sources)
    /\ (last.op = "save_raw" /\ ~last.raised) =>
        /\ Len(raw_sources) = Len(last.before.raw)
              + (IF MatchSourceId(last.before.raw, last.sid) = <<>> THEN 1 ELSE 0)
        /\ \E r \in Range(raw_sources) :
              r.source_id = last.sid /\ last.ret = ReturnedId(r)
        /\ last.prior.sid = last.sid =>
              /\ last.ret = last.prior.ret
              /\ Len(raw_sources) = Len(last.before.raw)

\* Two save_raw calls in a row for one source_id, the second with a payload
\* other than the stored one, next to a row of another source_id.
C1_Witness ==
    /\ last.op = "save_raw" /\ ~last.raised
    /\ last.prior.sid = last.sid
    /\ Len(raw_sources) = 2
    /\ \E r \in Range(raw_sources) :
          r.source_id = last.sid /\ r.content # last.arg

\* C2: at most one insight is stored per source_id in every reachable state;
\* a save_insight whose source_id is already stored returns the stored row's
\* identifier and leaves the insights table as it was, whatever the fields of
\* the new insight.
C2_OneInsightPerRecord ==
    /\ AtMostOnePerSourceId(insights)
    /\ (last.op = "save_insight" /\ ~last.raised
          /\ MatchSourceId(last.before.insights, last.sid) # <<>>) =>
        /\ insights = last.before.insights
        /\ last.ret = ReturnedId(MatchSourceId(last.before.insights, last.sid)[1])

\* A second classification of a record saved with another category and
\* another frustration level than the stored insight.
C2_Witness ==
    /\ last.op = "save_insight" /\ ~last.raised
    /\ \E r \in Range(insights) :
          /\ r.source_id = last.sid
          /\ r.category # last.arg.category
          /\ r.frustration_level # last.arg.frustration_level

\* C9: a save_raw of an already stored source_id writes nothing.  The whole
\* raw table -- the stored row's payload and processed flag, every other
\* row, the row count -- and the insights table are what they were before
\* the call; no write is attempted (an error injected into the write does
\* not strike), and unless the lookup itself fails the call returns the
\* identifier of the stored row.
C9_DuplicateRawSaveWritesNothing ==
    (last.op = "save_raw"
       /\ MatchSourceId(last.before.raw, last.sid) # <<>>) =>
        /\ raw_sources = last.before.raw
        /\ insights = last.before.insights
        /\ last.fault # "read" =>
              /\ ~last.raised
              /\ last.ret = ReturnedId(MatchSourceId(last.before.raw, last.sid)[1])

\* A re-save, with a changed payload, of a record already marked processed.
C9_Witness ==
    /\ last.op = "save_raw" /\ ~last.raised
    /\ \E r \in Range(last.before.raw) :
          r.source_id = last.sid /\ r.content # last.arg /\ r.processed

C10_WitnessLimit ==
    /\ last.op = "get_unprocessed"
    /\ Len(last.result) = last.arg
    /\ last.arg < Cardinality(Unprocessed(raw_sources))

\* A raw record of this source_id is stored and flagged processed.
Processed(sid) ==
    \E i \in 1..Len(raw_sources) :
        raw_sources[i].source_id = sid /\ raw_sources[i].processed

\* C25: the processed flag is permanent.  Whichever of save_raw (of the
\* same source_id with other content included), save_insight,
\* mark_as_processed and get_unprocessed_raw_data comes next, a raw record
\* that was flagged processed when the call began is flagged processed when
\* it has ended, and a get_unprocessed_raw_data does not return it; so the
\* flag, once set, is never cleared and the record never read as unprocessed
\* again.
C25_ProcessedPermanent ==
    \A b \in 1..Len(last.before.raw) :
        last.before.raw[b].processed =>
           /\ Processed(last.before.raw[b].source_id)
           /\ last.op = "get_unprocessed" =>
                 \A k \in 1..Len(last.result) :
                     last.result[k].source_id # last.before.raw[b].source_id

\* A processed record was saved again with other content: the save
\* returned and the record is still flagged, with the content it had.
C25_Witness ==
    /\ last.op = "save_raw" /\ ~last.raised
    /\ Processed(last.sid)
    /\ \E r \in Range(raw_sources) :
          r.source_id = last.sid /\ r.content # last.arg

\* A read that followed a save for a processed record and returned the
\* other, unprocessed record only.
C25_WitnessRead ==
    /\ last.op = "get_unprocessed"
    /\ last.prior.sid \in SourceIds
    /\ Processed(last.prior.sid)
    /\ Len(raw_sources) = 2
    /\ Len(last.result) = 1

\* C11: mark_as_processed(source_id) that meets no storage error returns
\* None without raising; afterwards the raw table has the same rows in the
\* same order, the rows with that source_id flagged processed and every other
\* row exactly as before; when no row has the source_id both tables are as
\* the call found them.
C11_MarkProcessed ==
    (last.op = "mark_processed" /\ last.fault = "none") =>
        /\ ~last.raised
        /\ last.ret = None
        /\ insights = last.before.insights
        /\ Len(raw_sources) = Len(last.before.raw)
        /\ \A i \in 1..Len(raw_sources) :
              raw_sources[i] =
                  IF last.before.raw[i].source_id = last.sid
                  THEN [last.before.raw[i] EXCEPT !.processed = TRUE]
                  ELSE last.before.raw[i]
        /\ MatchSourceId(last.before.raw, last.sid) = <<>> =>
              raw_sources = last.before.raw

\* A mark that flagged its row while another, unprocessed row stayed as it was.
C11_Witness ==
    /\ last.op = "mark_processed"
    /\ ~last.raised
    /\ \E i, j \in 1..Len(raw_sources) :
          /\ raw_sources[i].source_id = last.sid
          /\ raw_sources[i].processed
          /\ ~last.before.raw[i].processed
          /\ raw_sources[j].source_id # last.sid
          /\ ~raw_sources[j].processed

\* A mark for a source_id no row of a non-empty table has.
C11_WitnessAbsent ==
    /\ last.op = "mark_processed"
    /\ ~last.raised
    /\ raw_sources # <<>>
    /\ MatchSourceId(raw_sources, last.sid) = <<>>

SourceIdSet(rows) == {rows[i].source_id : i \in 1..Len(rows)}

\* What the claim compares of a store: each raw source_id with its processed
\* flag and each insight source_id with its category.
Content(db) ==
    [raw |-> {<<db.raw[i].source_id, db.raw[i].processed>> :
                 i \in 1..Len(db.raw)},
     insights |-> {<<db.insights[i].source_id, db.insights[i].category>> :
                      i \in 1..Len(db.insights)}]

ListReads == {"get_unprocessed", "get_insights_by_category", "get_all_insights"}

\* The sum of the counts of a breakdown.
RECURSIVE Total(_)
Total(counts) ==
    IF DOMAIN counts = {} THEN 0
    ELSE LET c == CHOOSE x \in DOMAIN counts : TRUE
         IN  counts[c] + Total([d \in DOMAIN counts \ {c} |-> counts[d]])

\* What get_stats has to report of a store as it stands.
StatsOf(db, stats) ==
    /\ stats.raw_data_points = Len(db.raw)
    /\ stats.classified_insights = Len(db.insights)
    /\ stats.problem_clusters = Len(db.clusters)
    /\ stats.scored_opportunities = Len(db.scores)
    /\ DOMAIN stats.category_breakdown =
          {db.insights[i].category : i \in 1..Len(db.insights)}
    /\ \A c \in DOMAIN stats.category_breakdown :
          stats.category_breakdown[c] =
             Cardinality({i \in 1..Len(db.insights) : db.insights[i].category = c})
    /\ Total(stats.category_breakdown) = Len(db.insights)

\* C23: get_stats reflects the current state.  After any sequence of
\* save_raw, save_insight, save_cluster, save_opportunity_score and
\* mark_processed calls, get_stats of either backend returns the number of
\* stored raw records, insights, clusters and scores, and a category
\* breakdown that gives each category the number of stored insights of that
\* primary category, the counts summing to the number of insights.
C23_StatsCurrent ==
    reads.op = "get_stats" =>
        /\ StatsOf(sqlite_db, reads.sqlite)
        /\ StatsOf(airtable_base, reads.airtable)

\* get_stats on stores that hold two insights of two categories, a cluster,
\* a score and a processed raw record.
C23_Witness ==
    /\ reads.op = "get_stats"
    /\ Len(sqlite_db.insights) = 2
    /\ DOMAIN reads.sqlite.category_breakdown = Categories
    /\ Len(sqlite_db.clusters) = 1
    /\ Len(sqlite_db.scores) = 1
    /\ \E r \in Range(airtable_base.raw) : r.processed

\* C30, as claimed: idempotent save holds under interleaving.  When two
\* save_raw (or two save_insight) calls for one source_id that is not stored
\* both make their existence check before either writes, then once both
\* have ended the table holds exactly one row of that source_id and both
\* callers have been returned that row's identifier, in either backend.
C30_IdempotentUnderInterleaving ==
    (/\ callers # <<>>
     /\ \A c \in 1..Len(callers) : callers[c].pc = "done" /\ ~callers[c].found
     /\ callers[1].op = callers[2].op
     /\ callers[1].sid = callers[2].sid) =>
        LET rows == MatchSourceId(TableOf(callers[1].op), callers[1].sid)
        IN  /\ Len(rows) = 1
            /\ \A c \in 1..Len(callers) :
                  ~callers[c].raised /\ callers[c].ret = ReturnedId(rows[1])

C12_WitnessLimit ==
    /\ reads.op = "get_unprocessed"
    /\ Len(reads.airtable) = 1
    /\ Cardinality(Unprocessed(airtable_base.raw)) = 2

\* ------------------------------------------------ analysis/classifier.py

MaxBatch == 3
MaxConcurrency == 2

\* stop_after_attempt(3) of the @retry decorator on Classifier.classify.
StopAfterAttempt == 3

ProblemCategoryValues ==
    {"admin", "analytics", "marketing", "loyalty", "payments", "fulfillment",
     "inventory", "customer_support", "design", "seo", "integrations",
     "performance", "pricing", "other"}

\* Python's None where an insight is expected, given the shape of an insight
\* so that it can stand in a sequence of results.
NoInsight ==
    [source_id |-> 0, category |-> None, secondary_categories |-> <<>>,
     frustration_level |-> 0, clarity_score |-> 0]

\* A completion: either the client call raises (error), or it returns a text,
\* modelled as its lines.  The line "JSON" is the serialised object payload,
\* a line starting with ~~~ a Markdown code-fence line (three backquotes);
\* complete says that every key classify reads with result[...] is present.
Completion(error, lines, complete, category, secondary, frustration, clarity) ==
    [error |-> error, lines |-> lines,
     payload |-> [complete |-> complete, category |-> category,
                  secondary_categories |-> secondary,
                  frustration_level |-> frustration,
                  clarity_score |-> clarity]]

Completions ==
    { Completion(FALSE, <<"JSON">>, TRUE, "analytics", <<"pricing">>, 5, 5),
      Completion(FALSE, <<"~~~json", "JSON", "~~~">>, TRUE, "other", <<>>, 1, 1),
      Completion(TRUE, <<>>, TRUE, "analytics", <<>>, 5, 5),
      Completion(FALSE, <<"This is not valid JSON">>, TRUE, "analytics", <<>>, 5, 5),
      Completion(FALSE, <<"~~~json", "JSON">>, TRUE, "analytics", <<>>, 5, 5),
      Completion(FALSE, <<"JSON">>, FALSE, "analytics", <<>>, 5, 5),
      Completion(FALSE, <<"JSON">>, TRUE, "shipping", <<>>, 5, 5),
      Completion(FALSE, <<"JSON">>, TRUE, "analytics", <<"shipping">>, 5, 5),
      Completion(FALSE, <<"JSON">>, TRUE, "analytics", <<>>, 6, 5),
      Completion(FALSE, <<"JSON">>, TRUE, "analytics", <<>>, 5, 0) }

\* The kinds of failure of one completion, told from the completion alone.
ServiceError(c) == c.error

MalformedJson(c) == ~c.error /\ "JSON" \notin Range(c.lines)

MissingField(c) == ~c.error /\ ~c.payload.complete

UnmappedCategory(c) ==
    /\ ~c.error
    /\ \/ c.payload.category \notin ProblemCategoryValues
       \/ \E k \in 1..Len(c.payload.secondary_categories) :
             c.payload.secondary_categories[k] \notin ProblemCategoryValues

OutOfRange(c) ==
    /\ ~c.error
    /\ \/ c.payload.frustration_level \notin 1..5
       \/ c.payload.clarity_score \notin 1..5

Kind(c) ==
    IF ServiceError(c) THEN "service_error"
    ELSE IF MalformedJson(c) THEN "malformed_json"
    ELSE IF MissingField(c) THEN "missing_field"
    ELSE IF UnmappedCategory(c) THEN "unmapped_category"
    ELSE IF OutOfRange(c) THEN "out_of_range"
    ELSE "other"

\* What one run of the body of classify gives: a returned value, or an
\* exception leaving the function.
Returned(v) == [raised |-> FALSE, value |-> v]

Raised == [raised |-> TRUE, value |-> NoInsight]

\* response_text after the code-fence handling: when the text starts with
\* a code fence the first and the last line are dropped (lines[1:-1]).
StripFence(lines) ==
    IF Len(lines) > 0 /\ lines[1] \in {"~~~", "~~~json"}
    THEN SubSeq(lines, 2, Len(lines) - 1)
    ELSE lines

\* json.loads succeeds when the text is exactly one JSON object.
JsonLoads(lines) == lines = <<"JSON">>

\* ClassifiedInsight(...): ProblemCategory(...) raises ValueError on a value
\* outside the enumeration, Field(ge=1, le=5) a ValidationError.
Validates(payload) ==
    /\ payload.category \in ProblemCategoryValues
    /\ \A k \in 1..Len(payload.secondary_categories) :
          payload.secondary_categories[k] \in ProblemCategoryValues
    /\ payload.frustration_level \in 1..5
    /\ payload.clarity_score \in 1..5

\* A classify whose handlers catch json.JSONDecodeError only.
classify_body_NarrowExcept(datapoint, c) ==
    IF c.error THEN Raised
    ELSE IF ~JsonLoads(StripFence(c.lines)) THEN Returned(NoInsight)
    ELSE IF ~c.payload.complete THEN Raised
    ELSE IF ~Validates(c.payload) THEN Raised
    ELSE Returned([source_id |-> datapoint.source_id,
                   category |-> c.payload.category,
                   secondary_categories |-> c.payload.secondary_categories,
                   frustration_level |-> c.payload.frustration_level,
                   clarity_score |-> c.payload.clarity_score])

\* A classify that repairs an invalid payload: a score is clamped into 1..5,
\* a category outside the enumeration becomes "other".
classify_body_Repair(datapoint, c) ==
    IF c.error THEN Returned(NoInsight)
    ELSE IF ~JsonLoads(StripFence(c.lines)) THEN Returned(NoInsight)
    ELSE IF ~c.payload.complete THEN Returned(NoInsight)
    ELSE Returned([source_id |-> datapoint.source_id,
                   category |-> IF c.payload.category \in ProblemCategoryValues
                                THEN c.payload.category ELSE "other",
                   secondary_categories |->
                       [k \in 1..Len(c.payload.secondary_categories) |->
                           IF c.payload.secondary_categories[k]
                                 \in ProblemCategoryValues
                           THEN c.payload.secondary_categories[k]
                           ELSE "other"],
                   frustration_level |->
                       IF c.payload.frustration_level > 5 THEN 5
                       ELSE IF c.payload.frustration_level < 1 THEN 1
                       ELSE c.payload.frustration_level,
                   clarity_score |->
                       IF c.payload.clarity_score > 5 THEN 5
                       ELSE IF c.payload.clarity_score < 1 THEN 1
                       ELSE c.payload.clarity_score])

\* The body of Classifier.classify: one call of the completion service, the
\* parse, the construction of the insight; except json.JSONDecodeError and
\* except Exception both return None.
classify_body(datapoint, c) ==
    IF c.error THEN Returned(NoInsight)
    ELSE IF ~JsonLoads(StripFence(c.lines)) THEN Returned(NoInsight)
    ELSE IF ~c.payload.complete THEN Returned(NoInsight)
    ELSE IF ~Validates(c.payload) THEN Returned(NoInsight)
    ELSE Returned([source_id |-> datapoint.source_id,
                   category |-> c.payload.category,
                   secondary_categories |-> c.payload.secondary_categories,
                   frustration_level |-> c.payload.frustration_level,
                   clarity_score |-> c.payload.clarity_score])

\* tenacity's decision after attempt number n: retry when the attempt raised
\* and the attempt budget is not used up (the default retry condition is
\* retry_if_exception_type(): a returned value, None included, ends the loop).
ShouldRetry(outcome, n) == outcome.raised /\ n < StopAfterAttempt

\* "if result:" -- None is falsy, a ClassifiedInsight is truthy.
Truthy_Always(result) == TRUE

Truthy(result) == result # NoInsight

\* "async with semaphore" enters at once when a permit is free.
CanAcquire_Always(sem) == TRUE

CanAcquire(sem) == sem > 0

\* A task of the batch; finished is its place in the order in which the
\* tasks of the batch finish (0 while it has not).
NewTask == [st |-> "pending", calls |-> 0, result |-> NoInsight,
            raised |-> FALSE, kind |-> "none", finished |-> 0]

\* The state classify_batch(dps, n) starts its loop in: a fresh semaphore
\* with n permits and one task per record; an empty batch has nothing to
\* iterate over.
StartBatch(dps, n) ==
    /\ datapoints' = dps
    /\ concurrency' = n
    /\ semaphore' = n
    /\ task' = [i \in 1..Len(dps) |-> NewTask]
    /\ done_queue' = <<>>
    /\ yielded' = <<>>
    /\ pc' = IF Len(dps) = 0 THEN "finished" ELSE "iterating"

BatchOf(k) == [i \in 1..k |-> [source_id |-> i, content |-> "text_a"]]

\* classify_batch uses no storage: the store plays no part in SpecBatch.
InitBatch ==
    /\ backend = "sqlite"
    /\ raw_sources = <<>>
    /\ insights = <<>>
    /\ last = NoCall
    /\ handled = ""
    /\ \E k \in 0..MaxBatch : datapoints = BatchOf(k)
    /\ concurrency \in 0..MaxConcurrency
    /\ semaphore = concurrency
    /\ task = [i \in 1..Len(datapoints) |-> NewTask]
    /\ done_queue = <<>>
    /\ yielded = <<>>
    /\ pc = IF Len(datapoints) = 0 THEN "finished" ELSE "iterating"
    /\ NoPair
    /\ NoRank
    /\ NoRest

Done == {i \in 1..Len(task) : task[i].st = "done"}

\* An iteration that hands over finished tasks in the order of the input
\* list.
Dequeue_InputOrder(queue) ==
    LET i == CHOOSE j \in Range(queue) : \A k \in Range(queue) : j <= k
    IN  [next |-> i, rest |-> SelectSeq(queue, LAMBDA j : j # i)]

\* What "await coro" of as_completed hands over next: the finished task
\* that has waited longest in the queue of finished tasks.
Dequeue(queue) == [next |-> Head(queue), rest |-> Tail(queue)]

\* classify_with_semaphore(dp) passes the gate.
Acquire(i) ==
    /\ pc = "iterating"
    /\ task[i].st = "pending"
    /\ CanAcquire(semaphore)
    /\ semaphore' = semaphore - 1
    /\ task' = [task EXCEPT ![i].st = "running"]
    /\ UNCHANGED <<datapoints, concurrency, done_queue, yielded, pc>>
    /\ UNCHANGED <<pairVars, rankVars, restVars>>

\* One attempt of classify for record i, the completion service answering c.
\* Either tenacity goes round again, or the call is over: the value (or the
\* RetryError) leaves "async with", which gives the permit back, and the
\* finished task joins the queue of as_completed.
Attempt(i, c) ==
    LET outcome == classify_body(datapoints[i], c)
        n == task[i].calls + 1
    IN  /\ pc = "iterating"
        /\ task[i].st = "running"
        /\ IF ShouldRetry(outcome, n)
           THEN /\ task' = [task EXCEPT ![i].calls = n]
                /\ UNCHANGED <<semaphore, done_queue>>
           ELSE /\ task' = [task EXCEPT ![i] =
                              [st |-> "done", calls |-> n,
                               result |-> outcome.value,
                               raised |-> outcome.raised, kind |-> Kind(c),
                               finished |-> Cardinality(Done) + 1]]
                /\ semaphore' = semaphore + 1
                /\ done_queue' = Append(done_queue, i)
        /\ UNCHANGED <<datapoints, concurrency, yielded, pc>>
        /\ UNCHANGED <<pairVars, rankVars, restVars>>

\* One round of "for coro in asyncio.as_completed(tasks)": await the next
\* finished task; its exception, if any, leaves the generator; a truthy
\* result is yielded.  After the last task the generator is exhausted.
Consume ==
    /\ pc = "iterating"
    /\ done_queue # <<>>
    /\ LET i == Dequeue(done_queue).next
           rest == Dequeue(done_queue).rest
           all_done == \A j \in 1..Len(task) : task[j].st = "done"
       IN  /\ done_queue' = rest
           /\ IF task[i].raised
              THEN pc' = "aborted" /\ UNCHANGED yielded
              ELSE /\ yielded' = IF Truthy(task[i].result)
                                 THEN Append(yielded, task[i].result)
                                 ELSE yielded
                   /\ pc' = IF all_done /\ rest = <<>> THEN "finished"
                            ELSE "iterating"
    /\ UNCHANGED <<datapoints, concurrency, semaphore, task>>
    /\ UNCHANGED <<pairVars, rankVars, restVars>>

NextBatch ==
    \/ \E i \in 1..Len(task) : Acquire(i) /\ UNCHANGED <<storeVars, last, handled>>
    \/ \E i \in 1..Len(task), c \in Completions :
          Attempt(i, c) /\ UNCHANGED <<storeVars, last, handled>>
    \/ Consume /\ UNCHANGED <<storeVars, last, handled>>

SpecBatch == InitBatch /\ [][NextBatch]_vars

\* The event loop runs every task that is ready: a task that can pass the
\* gate does, the completion service answers every call in the end, and
\* the consumer takes every finished task.
FairBatch ==
    /\ \A i \in 1..MaxBatch :
          WF_vars(/\ i <= Len(task)
                  /\ Acquire(i)
                  /\ UNCHANGED <<storeVars, last, handled>>)
    /\ \A i \in 1..MaxBatch :
          WF_vars(/\ i <= Len(task)
                  /\ \E c \in Completions : Attempt(i, c)
                  /\ UNCHANGED <<storeVars, last, handled>>)
    /\ WF_vars(Consume /\ UNCHANGED <<storeVars, last, handled>>)

SpecBatchFair == SpecBatch /\ FairBatch

\* ------------------------------------- classify_batch calls side by side
\* Two classify_batch calls on one Classifier, running at once on one event
\* loop.  Each call executes "semaphore = asyncio.Semaphore(concurrency)"
\* and its tasks close over that local; invocations[b] is the b-th call: its
\* concurrency argument, its semaphore's value and the state of each of its
\* tasks.

MaxGateBatch == 2

Invocation(n, k) ==
    [concurrency |-> n, semaphore |-> n, st |-> [i \in 1..k |-> "pending"]]

\* A semaphore kept on the Classifier and shared by its calls: the one the
\* first call made.
Gate_Shared(b) == 1

\* Which call's semaphore the tasks of call b wait on: the call's own.
Gate(b) == b

InitGates ==
    /\ NoPipeline /\ NoPair /\ NoRank
    /\ interview_participants = <<>>
    /\ lookup = NoLookup
    /\ callers = <<>>
    /\ \E n1, n2 \in 0..MaxConcurrency, k1, k2 \in 1..MaxGateBatch :
          invocations = <<Invocation(n1, k1), Invocation(n2, k2)>>

\* "async with semaphore" of task i of call b enters.
GateAcquire(b, i) ==
    /\ invocations[b].st[i] = "pending"
    /\ CanAcquire(invocations[Gate(b)].semaphore)
    /\ invocations' = [invocations EXCEPT ![Gate(b)].semaphore = @ - 1,
                                          ![b].st[i] = "running"]
    /\ UNCHANGED <<pipelineVars, pairVars, rankVars, interview_participants,
                   lookup, callers>>

\* classify of task i of call b returns: "async with" gives the permit
\* back.
GateRelease(b, i) ==
    /\ invocations[b].st[i] = "running"
    /\ invocations' = [invocations EXCEPT ![Gate(b)].semaphore = @ + 1,
                                          ![b].st[i] = "done"]
    /\ UNCHANGED <<pipelineVars, pairVars, rankVars, interview_participants,
                   lookup, callers>>

NextGates ==
    \E b \in 1..Len(invocations) :
        \E i \in 1..Len(invocations[b].st) :
            GateAcquire(b, i) \/ GateRelease(b, i)

SpecGates == InitGates /\ [][NextGates]_vars

\* The records of call b that have passed the gate and not finished.
InFlightOf(b) ==
    {i \in 1..Len(invocations[b].st) : invocations[b].st[i] = "running"}

\* C26: the gate is exclusive to one classify_batch call.  With two calls
\* running at once, each call has at most its own limit in flight, the
\* permits of its semaphore counted out are exactly those its own records
\* hold, and a waiting record can pass exactly when fewer records of its
\* own call are in flight than its call's limit, whatever the other call's
\* records hold.
C26_GatePerInvocation ==
    \A b \in 1..Len(invocations) :
        /\ Cardinality(InFlightOf(b)) <= invocations[b].concurrency
        /\ invocations[b].semaphore =
              invocations[b].concurrency - Cardinality(InFlightOf(b))
        /\ \A i \in 1..Len(invocations[b].st) :
              invocations[b].st[i] = "pending" =>
                 (ENABLED GateAcquire(b, i) <=>
                     Cardinality(InFlightOf(b)) < invocations[b].concurrency)

\* The first call, limit 1, has one record in flight and one held back,
\* while the second, limit 2, has two in flight.
C26_Witness ==
    /\ invocations[1].concurrency = 1
    /\ invocations[1].st = <<"running", "pending">>
    /\ invocations[2].concurrency = 2
    /\ Cardinality(InFlightOf(2)) = 2

\* --------------------------------------------------- classifier properties

InFlight == {i \in 1..Len(task) : task[i].st = "running"}

\* The records whose classification gave no result.
Failed == {i \in Done : task[i].result = NoInsight}

BatchSourceIds == {datapoints[i].source_id : i \in 1..Len(datapoints)}

\* C3: batch completeness modulo failures.  Every yielded insight carries
\* the source_id of a record of the batch and no source_id is yielded twice;
\* when classify_batch is exhausted it has yielded exactly K - F insights,
\* K the number of records and F the number whose classification failed.
C3_BatchCompleteness ==
    /\ \A k \in 1..Len(yielded) : yielded[k].source_id \in BatchSourceIds
    /\ \A k1, k2 \in 1..Len(yielded) :
          yielded[k1].source_id = yielded[k2].source_id => k1 = k2
    /\ pc = "finished" =>
          Len(yielded) = Len(datapoints) - Cardinality(Failed)

\* A batch of three records, one of them failed, run to the end.
C3_Witness ==
    /\ pc = "finished"
    /\ Len(datapoints) = 3
    /\ Cardinality(Failed) = 1
    /\ Len(yielded) = 2

\* C4: concurrency bound.  In every state of classify_batch(records, N) the
\* number of records that have passed the gate and not yet finished is at
\* most N, and the semaphore never goes below zero.
C4_ConcurrencyBound ==
    /\ Cardinality(InFlight) <= concurrency
    /\ semaphore >= 0

\* The gate is full and holds a record back: N = 2 in flight, one waiting.
C4_Witness ==
    /\ concurrency = 2
    /\ Cardinality(InFlight) = 2
    /\ \E i \in 1..Len(task) : task[i].st = "pending"

FailureKinds ==
    {"service_error", "malformed_json", "missing_field", "unmapped_category"}

\* The place in the input list of the record a yielded insight is of.
RecordOf(insight) ==
    CHOOSE i \in 1..Len(datapoints) : datapoints[i].source_id = insight.source_id

\* C22: classify_batch yields in completion order.  Of two yielded insights
\* the one yielded first is of the record whose classification finished
\* first, wherever the two records stand in the input list; and an insight
\* that has been yielded never belongs to a record that finished after a
\* record whose insight is still waiting to be yielded.
C22_CompletionOrder ==
    /\ \A k1, k2 \in 1..Len(yielded) :
          k1 < k2 => task[RecordOf(yielded[k1])].finished
                        < task[RecordOf(yielded[k2])].finished
    /\ \A k \in 1..Len(yielded), q \in 1..Len(done_queue) :
          task[RecordOf(yielded[k])].finished < task[done_queue[q]].finished

\* The second record of the input finished first and was yielded first; the
\* first record, slower, was yielded after it.
C22_Witness ==
    /\ Len(yielded) = 2
    /\ RecordOf(yielded[1]) = 2
    /\ RecordOf(yielded[2]) = 1
    /\ task[2].finished < task[1].finished

\* C27, as claimed: classify_batch terminates without leaking permits.  For
\* every batch and every concurrency limit asyncio.Semaphore accepts, the
\* permits held and the permits free always add up to the limit, every
\* waiting task passes the gate in the end, every task inside the gate
\* leaves it, and the consumer reaches the end of the output sequence.
C27_Terminates ==
    /\ [](semaphore + Cardinality(InFlight) = concurrency)
    /\ \A i \in 1..MaxBatch :
          (i <= Len(task) /\ task[i].st = "pending")
             ~> (i <= Len(task) /\ task[i].st = "running")
    /\ \A i \in 1..MaxBatch :
          (i <= Len(task) /\ task[i].st = "running")
             ~> (i <= Len(task) /\ task[i].st = "done")
    /\ <>(pc = "finished")

\* The same for a limit of at least one permit.
C27_TerminatesPositive == concurrency >= 1 => C27_Terminates

\* C5: failure isolation.  No classify call ever raises and the batch is
\* never aborted; a record whose completion was a service error, malformed
\* JSON, an unmapped category or lacked a required field ends with no
\* result; and a finished record that has a result is either still queued
\* for the loop or has been yielded, whatever happened to the other records.
C5_FailureIsolation ==
    /\ pc # "aborted"
    /\ \A i \in Done :
          /\ ~task[i].raised
          /\ task[i].kind \in FailureKinds => task[i].result = NoInsight
          /\ task[i].result # NoInsight =>
                \/ \E q \in 1..Len(done_queue) : done_queue[q] = i
                \/ \E k \in 1..Len(yielded) : yielded[k] = task[i].result

\* A finished batch of three records: one hit a service error, one an
\* unmapped category, and the insight of the third was yielded.
C5_Witness ==
    /\ pc = "finished"
    /\ \E i \in Done : task[i].kind = "service_error"
    /\ \E i \in Done : task[i].kind = "unmapped_category"
    /\ Len(yielded) = 1

\* C6: retry policy, as claimed.  The completion service is called at most
\* StopAfterAttempt times for one record, and a record ends with no result
\* only after all StopAfterAttempt attempts have been made.
C6_RetryPolicy ==
    \A i \in Done :
        /\ task[i].calls <= StopAfterAttempt
        /\ task[i].result = NoInsight => task[i].calls = StopAfterAttempt

\* ------------------------------------------------------------------ main.py
\* The scrape and classify commands against one store.  Commands run one
\* at a time; a scraper hands over one datapoint per Scrape step.  faults is
\* the set of storage errors that may strike a write.

\* --concurrency of the classify command.
DefaultConcurrency == 5

\* What the scrapers deliver in the command runs.
ScrapedDatapoints == [source_id : SourceIds, content : {"text_a"}]

\* What the completion service answers in the command runs: a good
\* completion or a service error.
RunCompletions ==
    { Completion(FALSE, <<"JSON">>, TRUE, "analytics", <<"pricing">>, 5, 5),
      Completion(TRUE, <<>>, TRUE, "analytics", <<>>, 5, 5) }

InitRun == EmptyStore /\ NoBatch /\ NoPair /\ NoRank /\ NoRest

\* The body of the scraping loop of _scrape: save the datapoint; an
\* exception of the save is caught and printed.
Scrape(faults) ==
    /\ pc = "idle"
    /\ \E dp \in ScrapedDatapoints, f \in faults :
        LET o == save_raw_datapoint(backend, raw_sources, dp, f)
        IN  /\ raw_sources' = o.tbl
            /\ last' = Call("save_raw", dp.source_id, dp.content, f, o,
                            Tables, <<>>, last)
            /\ handled' = IF o.raised THEN "Error saving" ELSE ""
    /\ UNCHANGED <<backend, insights>>
    /\ UNCHANGED <<batchVars, pairVars, rankVars, restVars>>

\* _classify up to its loop: fetch the unprocessed rows; return when there
\* are none; otherwise turn each row into a RawDataPoint and hand the list
\* to classify_batch.
ClassifyStart(limits) ==
    /\ pc = "idle"
    /\ \E limit \in limits :
        LET rows == get_unprocessed_raw_data(backend, raw_sources, limit)
        IN  /\ last' = Call("get_unprocessed", 0, limit, "none",
                            Outcome(raw_sources, None, FALSE), Tables, rows,
                            last)
            /\ IF rows = <<>>
               THEN UNCHANGED batchVars
               ELSE StartBatch(rows, DefaultConcurrency)
    /\ handled' = ""
    /\ UNCHANGED <<storeVars, pairVars, rankVars, restVars>>

\* A loop body that marks the record processed whether or not the insight
\* was saved (the mark outside the try block).
SaveAndMark_MarkAnyway(insight, f1, f2) ==
    LET o1 == save_insight(backend, insights, insight, f1)
        c1 == Call("save_insight", insight.source_id, insight, f1, o1,
                   Tables, <<>>, last)
        o2 == mark_as_processed(backend, raw_sources, insight.source_id, f2)
    IN  /\ insights' = o1.tbl
        /\ raw_sources' = o2.tbl
        /\ last' = [c1 EXCEPT !.follow = [called |-> TRUE, fault |-> f2,
                                          raised |-> o2.raised]]
        /\ handled' = IF o1.raised \/ o2.raised THEN "Error saving insight"
                      ELSE ""

\* The try block of the loop of _classify for one yielded insight:
\* save_insight, then mark_as_processed; an exception of either is caught
\* and printed, and the statements after it in the block are skipped.
SaveAndMark(insight, f1, f2) ==
    LET o1 == save_insight(backend, insights, insight, f1)
        c1 == Call("save_insight", insight.source_id, insight, f1, o1,
                   Tables, <<>>, last)
        o2 == mark_as_processed(backend, raw_sources, insight.source_id, f2)
    IN  IF o1.raised
        THEN /\ last' = c1
             /\ handled' = "Error saving insight"
             /\ UNCHANGED <<raw_sources, insights>>
        ELSE /\ insights' = o1.tbl
             /\ raw_sources' = o2.tbl
             /\ last' = [c1 EXCEPT !.follow = [called |-> TRUE, fault |-> f2,
                                               raised |-> o2.raised]]
             /\ handled' = IF o2.raised THEN "Error saving insight" ELSE ""

\* One round of "async for insight in classifier.classify_batch(...)": the
\* generator moves on; when it yields, the loop body runs on the insight.
ClassifyStep(faults) ==
    /\ Consume
    /\ IF yielded' # yielded
       THEN \E f1 \in faults, f2 \in faults :
               SaveAndMark(yielded'[Len(yielded')], f1, f2)
       ELSE UNCHANGED <<raw_sources, insights, last, handled>>
    /\ UNCHANGED backend

\* The loop is over (or an exception left it): _classify returns.
ClassifyEnd ==
    /\ pc \in {"finished", "aborted"}
    /\ datapoints' = <<>>
    /\ concurrency' = 0
    /\ semaphore' = 0
    /\ task' = <<>>
    /\ done_queue' = <<>>
    /\ yielded' = <<>>
    /\ pc' = "idle"
    /\ UNCHANGED <<storeVars, last, handled, pairVars, rankVars, restVars>>

\* The commands with the storage errors in faults injected into the writes,
\* the completion service answering from completions and --limit drawn
\* from limits.
Pipeline(faults, completions, limits) ==
    \/ Scrape(faults)
    \/ ClassifyStart(limits)
    \/ \E i \in 1..Len(task) : Acquire(i) /\ UNCHANGED <<storeVars, last, handled>>
    \/ \E i \in 1..Len(task), c \in completions :
          Attempt(i, c) /\ UNCHANGED <<storeVars, last, handled>>
    \/ ClassifyStep(faults)
    \/ ClassifyEnd

Commands(faults) == Pipeline(faults, RunCompletions, Limits)

NextRun == Commands(FailPoints)

SpecRun == InitRun /\ [][NextRun]_vars

\* The commands against a store that never fails.
NextReliable == Commands({"none"})

SpecReliable == InitRun /\ [][NextReliable]_vars

\* The commands with a completion service whose answers are well-formed
\* JSON: good ones, and ones a score or a category of which is invalid.
ValidationCompletions ==
    { Completion(FALSE, <<"JSON">>, TRUE, "analytics", <<"pricing">>, 5, 1),
      Completion(FALSE, <<"JSON">>, TRUE, "shipping", <<>>, 5, 5),
      Completion(FALSE, <<"JSON">>, TRUE, "analytics", <<"shipping">>, 5, 5),
      Completion(FALSE, <<"JSON">>, TRUE, "analytics", <<>>, 6, 5),
      Completion(FALSE, <<"JSON">>, TRUE, "analytics", <<>>, 5, 0) }

NextValidate == Pipeline({"none"}, ValidationCompletions, Limits)

SpecValidate == InitRun /\ [][NextValidate]_vars

\* The classify command run again and again with one --limit, on a store
\* that never fails, scrapes coming in between.  Every run that can start
\* does, and within a run the event loop runs every ready task, the
\* completion service answers every call (with an insight or a failure) and
\* the loop of _classify takes every finished task.
RunLimit == 1

NextRepeat == Pipeline({"none"}, RunCompletions, {RunLimit})

FairRepeat ==
    /\ WF_vars(ClassifyStart({RunLimit}))
    /\ \A i \in 1..RunLimit :
          WF_vars(/\ i <= Len(task)
                  /\ Acquire(i)
                  /\ UNCHANGED <<storeVars, last, handled>>)
    /\ \A i \in 1..RunLimit :
          WF_vars(/\ i <= Len(task)
                  /\ \E c \in RunCompletions : Attempt(i, c)
                  /\ UNCHANGED <<storeVars, last, handled>>)
    /\ WF_vars(ClassifyStep({"none"}))
    /\ WF_vars(ClassifyEnd)

SpecRepeat == InitRun /\ [][NextRepeat]_vars /\ FairRepeat

\* ------------------------------------------------------- command properties

\* The raw rows of the records of the running batch.
Submitted ==
    {r \in Range(raw_sources) :
        \E i \in 1..Len(datapoints) : datapoints[i].source_id = r.source_id}

\* C7, as claimed: when a classify run has finished, every record submitted
\* to the classifier in that run has its processed flag set, whether its
\* classification succeeded or failed.  Stated for a store that never
\* fails (SpecReliable).
C7_AllSubmittedProcessed ==
    pc = "finished" => \A r \in Submitted : r.processed

\* Whether the injected storage error strikes a save: always in the lookup,
\* in the write only when the key is new and a write is attempted.
SaveStruck(fault, tbl, sid) ==
    \/ fault = "read"
    \/ fault = "write" /\ MatchSourceId(tbl, sid) = <<>>

\* An insight, yielded or stored, whose scores and categories are valid.
ValidInsight(x) ==
    /\ x.frustration_level \in 1..5
    /\ x.clarity_score \in 1..5
    /\ x.category \in ProblemCategoryValues
    /\ \A k \in 1..Len(x.secondary_categories) :
          x.secondary_categories[k] \in ProblemCategoryValues

\* C21: validation errors are terminal and never repaired.  A record whose
\* completion is well-formed JSON with a score outside 1..5 or a category
\* or secondary category outside the enumeration ends with no insight, and
\* every insight yielded by classify_batch and every insight stored by the
\* classify command has both scores in 1..5 and enumerated categories only.
C21_ValidationTerminal ==
    /\ \A i \in Done :
          task[i].kind \in {"unmapped_category", "out_of_range"} =>
             task[i].result = NoInsight
    /\ \A k \in 1..Len(yielded) : ValidInsight(yielded[k])
    /\ \A k \in 1..Len(insights) : ValidInsight(insights[k])

\* A finished run of two records: the completion of one had a score out of
\* range and gave nothing, the insight of the other was yielded and stored.
C21_Witness ==
    /\ pc = "finished"
    /\ \E i \in Done : task[i].kind = "out_of_range"
    /\ Len(yielded) = 1
    /\ Len(insights) = 1

C29_NoStarvation ==
    \A sid \in SourceIds :
        (\E r \in Range(raw_sources) : r.source_id = sid /\ ~r.processed)
           ~> (\E i \in 1..Len(datapoints) : datapoints[i].source_id = sid)

\* C8: persistence errors are never swallowed.  When a storage error strikes
\* save_raw or save_insight, or the mark_as_processed that follows a
\* save_insight, the call raises, the tables are left as the call found
\* them, and the caller's handler reports the error; after a failed
\* save_insight the caller does not go on to mark the record processed.
C8_PersistenceErrorsPropagate ==
    /\ (last.op = "save_raw"
          /\ SaveStruck(last.fault, last.before.raw, last.sid)) =>
        /\ last.raised
        /\ handled = "Error saving"
        /\ raw_sources = last.before.raw
    /\ (last.op = "save_insight"
          /\ SaveStruck(last.fault, last.before.insights, last.sid)) =>
        /\ last.raised
        /\ ~last.follow.called
        /\ handled = "Error saving insight"
        /\ insights = last.before.insights
        /\ raw_sources = last.before.raw
    /\ (last.op = "save_insight" /\ last.follow.called
          /\ last.follow.fault # "none") =>
        /\ last.follow.raised
        /\ handled = "Error saving insight"
        /\ raw_sources = last.before.raw

\* The write of a new insight failed: the error was reported and the record
\* is still unprocessed.
C8_Witness ==
    /\ last.op = "save_insight"
    /\ last.fault = "write"
    /\ last.raised
    /\ handled = "Error saving insight"
    /\ \E r \in Range(raw_sources) : r.source_id = last.sid /\ ~r.processed

\* -------------------------------------------------------- Python values
\* An Optional value: absent (None) or present with a value.
Absent == [defined |-> FALSE, value |-> 0]

Present(v) == [defined |-> TRUE, value |-> v]

\* a or b on Optional[int]: a when a is truthy (not None and not zero),
\* otherwise b.
PyOr(a, b) == IF a.defined /\ a.value # 0 THEN a ELSE b

\* Python floats are carried as exact fractions n/d in lowest terms, d > 0.
RECURSIVE GCD(_, _)
GCD(a, b) == IF b = 0 THEN a ELSE GCD(b, a % b)

Abs(x) == IF x < 0 THEN -x ELSE x

Rat(n, d) ==
    LET g == GCD(Abs(n), d)
    IN  [n |-> n \div g, d |-> d \div g]

RatAdd(a, b) == Rat(a.n * b.d + b.n * a.d, a.d * b.d)

RatMul(a, b) == Rat(a.n * b.n, a.d * b.d)

RatDiv(a, k) == Rat(a.n, a.d * k)

RatLeq(a, b) == a.n * b.d <= b.n * a.d

RatMin(a, b) == IF RatLeq(a, b) THEN a ELSE b

Zero == Rat(0, 1)

One == Rat(1, 1)

\* None where a float is expected.
NoFloat == [defined |-> FALSE, value |-> Zero]

\* round(x): the nearest integer, a tie going to the even one.
RoundHalfEven(x) ==
    LET q == (2 * x.n + x.d) \div (2 * x.d)
        tie == (2 * x.n + x.d) % (2 * x.d) = 0
    IN  IF tie /\ q % 2 = 1 THEN q - 1 ELSE q

\* round(x, 2), given as its number of hundredths.
Round2(x) == RoundHalfEven(RatMul(x, Rat(100, 1)))

\* ------------------------------------------- research/interview_schema.py

BusinessImpactValues == {"high", "medium", "low"}

\* InterviewInsight.has_wtp_data.
has_wtp_data(i) == i.wtp_amount_low.defined \/ i.wtp_amount_high.defined

\* InterviewInsight.wtp_midpoint: (low + high) / 2 when both bounds are set,
\* otherwise "low or high".
wtp_midpoint(i) ==
    IF i.wtp_amount_low.defined /\ i.wtp_amount_high.defined
    THEN Present(Rat(i.wtp_amount_low.value + i.wtp_amount_high.value, 2))
    ELSE LET v == PyOr(i.wtp_amount_low, i.wtp_amount_high)
         IN  IF v.defined THEN Present(Rat(v.value, 1)) ELSE NoFloat

\* ------------------------------------------ analysis/interview_reranker.py

WEIGHT_RELEVANCE == Rat(20, 100)
WEIGHT_FRUSTRATION == Rat(15, 100)
WEIGHT_ENGAGEMENT == Rat(15, 100)
WEIGHT_WTP_SIGNAL == Rat(10, 100)
WEIGHT_RECENCY == Rat(5, 100)
WEIGHT_INTERVIEW_VALIDATED == Rat(15, 100)
WEIGHT_INTERVIEW_WTP_Heavy == Rat(20, 100)
WEIGHT_INTERVIEW_WTP == Rat(10, 100)
WEIGHT_BUSINESS_IMPACT == Rat(10, 100)

\* A scraped insight dict without a "category" key.
NoKey == "<no key>"

\* insight.get("category", "other").
ScrapedCategory(insight) ==
    IF insight.category = NoKey THEN "other" ELSE insight.category

\* The keys of a grouping dict, in insertion order: each key where it first
\* occurs in the list.
RECURSIVE FirstOccurrences(_, _)
FirstOccurrences(keys, seen) ==
    IF keys = <<>> THEN <<>>
    ELSE IF Head(keys) \in seen THEN FirstOccurrences(Tail(keys), seen)
    ELSE <<Head(keys)>> \o FirstOccurrences(Tail(keys), seen \cup {Head(keys)})

ScrapedKeys(scraped) ==
    FirstOccurrences([i \in 1..Len(scraped) |-> ScrapedCategory(scraped[i])], {})

InterviewKeys(interviews) ==
    FirstOccurrences([i \in 1..Len(interviews) |-> interviews[i].pain_category],
                     {})

\* self._scraped_by_category.get(category, []).
_group_scraped_by_category(scraped, category) ==
    SelectSeq(scraped, LAMBDA i : ScrapedCategory(i) = category)

\* self._interview_by_category.get(category, []).
_group_interview_by_category(interviews, category) ==
    SelectSeq(interviews, LAMBDA i : i.pain_category = category)

RECURSIVE Sum(_)
Sum(seq) == IF seq = <<>> THEN 0 ELSE Head(seq) + Sum(Tail(seq))

RECURSIVE RatSum(_)
RatSum(seq) == IF seq = <<>> THEN Zero ELSE RatAdd(Head(seq), RatSum(Tail(seq)))

Max(S) == CHOOSE x \in S : \A y \in S : y <= x

\* calculate_base_score: the score on the 0-1 scale and the metrics.
calculate_base_score(scraped_all, category) ==
    LET scraped == _group_scraped_by_category(scraped_all, category)
        max_count == Max({Len(_group_scraped_by_category(scraped_all, k)) :
                             k \in Range(ScrapedKeys(scraped_all))})
        relevance == Rat(Len(scraped), max_count)
        frustrations == [i \in 1..Len(scraped) |-> scraped[i].frustration_level]
        avg_frustration == Rat(Sum(frustrations), Len(frustrations))
        frustration_norm == RatDiv(avg_frustration, 5)
        engagement == RatMin(Rat(Len(scraped), 50), One)
        wtp_count == Len(SelectSeq(scraped, LAMBDA i : i.willingness_to_pay))
        wtp_signal == RatMin(Rat(wtp_count, 10), One)
        recency == Rat(5, 10)
    IN  IF scraped = <<>>
        THEN [score |-> Zero, scraped_count |-> 0, wtp_signals |-> 0]
        ELSE [score |->
                 RatSum(<<RatMul(relevance, WEIGHT_RELEVANCE),
                          RatMul(frustration_norm, WEIGHT_FRUSTRATION),
                          RatMul(engagement, WEIGHT_ENGAGEMENT),
                          RatMul(wtp_signal, WEIGHT_WTP_SIGNAL),
                          RatMul(recency, WEIGHT_RECENCY)>>),
              scraped_count |-> Len(scraped),
              wtp_signals |-> wtp_count]

\* A blend: the mean of the bonuses of the levels present.
ImpactBonus_Blend(impacts) ==
    LET bonus(level) ==
            IF level = "high" THEN WEIGHT_BUSINESS_IMPACT
            ELSE IF level = "medium"
            THEN RatMul(WEIGHT_BUSINESS_IMPACT, Rat(5, 10))
            ELSE RatMul(WEIGHT_BUSINESS_IMPACT, Rat(2, 10))
        blend == RatDiv(RatAdd(RatAdd(
                     IF "high" \in impacts THEN bonus("high") ELSE Zero,
                     IF "medium" \in impacts THEN bonus("medium") ELSE Zero),
                     IF "low" \in impacts THEN bonus("low") ELSE Zero),
                     Cardinality(impacts))
    IN  IF impacts = {} THEN [highest_impact |-> None, impact_bonus |-> Zero]
        ELSE [highest_impact |->
                 IF "high" \in impacts THEN "high"
                 ELSE IF "medium" \in impacts THEN "medium" ELSE "low",
              impact_bonus |-> blend]

\* The business-impact branch: the highest level among the impacts and its
\* bonus.
ImpactBonus(impacts) ==
    IF "high" \in impacts
    THEN [highest_impact |-> "high", impact_bonus |-> WEIGHT_BUSINESS_IMPACT]
    ELSE IF "medium" \in impacts
    THEN [highest_impact |-> "medium",
          impact_bonus |-> RatMul(WEIGHT_BUSINESS_IMPACT, Rat(5, 10))]
    ELSE IF "low" \in impacts
    THEN [highest_impact |-> "low",
          impact_bonus |-> RatMul(WEIGHT_BUSINESS_IMPACT, Rat(2, 10))]
    ELSE [highest_impact |-> None, impact_bonus |-> Zero]

\* calculate_interview_bonus: the bonus on the 0-1 scale and the metrics.
\* interview_avg_wtp is round(avg_wtp, 2) "if avg_wtp", else None.
calculate_interview_bonus(interviews_all, category) ==
    LET interviews == _group_interview_by_category(interviews_all, category)
        validated_bonus == WEIGHT_INTERVIEW_VALIDATED
        wtp_insights == SelectSeq(interviews, has_wtp_data)
        wtp_bonus == IF wtp_insights # <<>> THEN WEIGHT_INTERVIEW_WTP ELSE Zero
        with_midpoint == SelectSeq(wtp_insights,
                                   LAMBDA i : wtp_midpoint(i).defined)
        wtp_amounts == [i \in 1..Len(with_midpoint) |->
                           wtp_midpoint(with_midpoint[i]).value]
        avg_wtp == IF wtp_amounts # <<>>
                   THEN Present(RatDiv(RatSum(wtp_amounts), Len(wtp_amounts)))
                   ELSE NoFloat
        impact == ImpactBonus({interviews[i].business_impact :
                                  i \in 1..Len(interviews)})
    IN  IF interviews = <<>>
        THEN [bonus |-> Zero, interview_validated |-> FALSE,
              interview_count |-> 0, interview_wtp_confirmed |-> FALSE,
              interview_avg_wtp |-> Absent, business_impact |-> None]
        ELSE [bonus |-> RatSum(<<validated_bonus, wtp_bonus,
                                 impact.impact_bonus>>),
              interview_validated |-> TRUE,
              interview_count |-> Len(interviews),
              interview_wtp_confirmed |-> wtp_insights # <<>>,
              interview_avg_wtp |->
                  IF avg_wtp.defined /\ avg_wtp.value # Zero
                  THEN Present(Round2(avg_wtp.value))
                  ELSE Absent,
              business_impact |-> impact.highest_impact]

\* A ProblemCategory(category_str) that accepts any string.
Parses_Any(category_str) == TRUE

\* ProblemCategory(category_str) returns a member; otherwise ValueError.
Parses(category_str) == category_str \in ProblemCategoryValues

\* all_categories: the keys of both groupings, as a set.
all_categories(scraped, interviews) ==
    Range(ScrapedKeys(scraped)) \cup Range(InterviewKeys(interviews))

Orderings(S) ==
    {o \in [1..Cardinality(S) -> S] :
        \A i, j \in 1..Cardinality(S) : o[i] = o[j] => i = j}

\* The orders in which "for category_str in all_categories" can visit a set
\* of strings: the iteration order of a set follows the strings' hashes,
\* which differ from one interpreter start to the next.  A key that does not
\* parse is skipped wherever it comes, so the keys that parse are taken in
\* every order and the others are put behind them.
VisitOrders(S) ==
    LET parsing == {k \in S : Parses(k)}
        skipped == CHOOSE o \in Orderings(S \ parsing) : TRUE
    IN  {o \o skipped : o \in Orderings(parsing)}

\* The combination without the 0.65 factor.
total_score_Unscaled(base_score, interview_bonus) ==
    RatAdd(base_score, interview_bonus)

\* total_score = (base_score * 0.65) + interview_bonus.
total_score(base_score, interview_bonus) ==
    RatAdd(RatMul(base_score, Rat(65, 100)), interview_bonus)

Hundred == Rat(100, 1)

\* The RankedOpportunity built in the loop body for one category.  The three
\* scores are round(x * 100, 2), carried as hundredths of a point.
RankedOpportunity(scraped, interviews, category_str) ==
    LET base == calculate_base_score(scraped, category_str)
        interview == calculate_interview_bonus(interviews, category_str)
    IN  [category |-> category_str,
         base_score |-> Round2(RatMul(base.score, Hundred)),
         interview_bonus |-> Round2(RatMul(interview.bonus, Hundred)),
         total_score |->
             Round2(RatMul(total_score(base.score, interview.bonus), Hundred)),
         scraped_count |-> base.scraped_count,
         wtp_signals |-> base.wtp_signals,
         interview_validated |-> interview.interview_validated,
         interview_count |-> interview.interview_count,
         interview_wtp_confirmed |-> interview.interview_wtp_confirmed,
         interview_avg_wtp |-> interview.interview_avg_wtp,
         business_impact |-> interview.business_impact]

\* One step of the stable descending sort: opp goes after every element that
\* scores at least as much.
RECURSIVE InsertDescending(_, _)
InsertDescending(sorted, opp) ==
    IF sorted = <<>> THEN <<opp>>
    ELSE IF Head(sorted).total_score >= opp.total_score
    THEN <<Head(sorted)>> \o InsertDescending(Tail(sorted), opp)
    ELSE <<opp>> \o sorted

\* opportunities.sort(key=lambda x: x.total_score, reverse=True).
RECURSIVE SortDescending(_)
SortDescending(opps) ==
    IF opps = <<>> THEN <<>>
    ELSE InsertDescending(SortDescending(SubSeq(opps, 1, Len(opps) - 1)),
                          opps[Len(opps)])

\* rank_opportunities without its final sort.
rank_opportunities_Unsorted(scraped, interviews, order) ==
    LET parsed == SelectSeq(order, Parses)
    IN  [i \in 1..Len(parsed) |->
            RankedOpportunity(scraped, interviews, parsed[i])]

\* rank_opportunities with the set visited in the given order: keys that do
\* not parse are skipped, the others get an opportunity each, then the sort.
rank_opportunities(scraped, interviews, order) ==
    LET parsed == SelectSeq(order, Parses)
    IN  SortDescending([i \in 1..Len(parsed) |->
            RankedOpportunity(scraped, interviews, parsed[i])])

\* get_top_opportunities(n): rank_opportunities()[:n], n not negative.
get_top_opportunities(ranking, n) == Take(ranking, n)

\* --------------------------------------------------- reranker call sequences

MaxScraped == 2
MaxAlongside == 1
MaxInterviews == 3
MaxTop == 2
MaxWtp == 6

SeqsUpTo(S, k) == UNION {[1..n -> S] : n \in 0..k}

\* Scraped insight records as storage returns them: a category that parses,
\* one that does not, or no category key at all; the mildest insight
\* (frustration 1, no willingness to pay) or the strongest (5, with it).
ScrapedSamples ==
    {[category |-> c, frustration_level |-> f[1], willingness_to_pay |-> f[2]] :
        c \in {"analytics", "bogus", NoKey}, f \in {<<1, FALSE>>, <<5, TRUE>>}}

InterviewInsight(category, impact, low, high) ==
    [pain_category |-> category, business_impact |-> impact,
     wtp_amount_low |-> low, wtp_amount_high |-> high]

\* Interview insights ranked alongside scraped ones.
RankInterviews ==
    {InterviewInsight(c, "high", Absent, high) :
        c \in {"analytics", "pricing"}, high \in {Absent, Present(40)}}

\* The WTP ranges of the interview insights of one category: none, a lower
\* bound of zero, zero to zero, 20 to 40.
WtpRanges ==
    {<<Absent, Absent>>, <<Present(0), Absent>>, <<Present(0), Present(0)>>,
     <<Present(20), Present(40)>>}

CategoryInterviews ==
    {InterviewInsight("analytics", impact, range[1], range[2]) :
        impact \in BusinessImpactValues, range \in WtpRanges}

WtpAmounts == {Absent} \cup {Present(v) : v \in 0..MaxWtp}

\* An InterviewReranker built on scraped and interview insights.
InitRank ==
    /\ NoPipeline /\ NoPair /\ NoRest
    /\ scraped_insights \in SeqsUpTo(ScrapedSamples, MaxScraped)
    /\ interview_insights \in SeqsUpTo(RankInterviews, MaxAlongside)
    /\ opportunities = <<>>
    /\ ranked = FALSE
    /\ top = NoTop
    /\ derived = NoDerived

\* An InterviewReranker built on the interview insights of one category.
InitBonus ==
    /\ NoPipeline /\ NoPair /\ NoRest
    /\ scraped_insights = <<>>
    /\ interview_insights \in SeqsUpTo(CategoryInterviews, MaxInterviews)
    /\ opportunities = <<>>
    /\ ranked = FALSE
    /\ top = NoTop
    /\ derived = NoDerived

\* One InterviewInsight with any WTP bounds.
InitWtp ==
    /\ NoPipeline /\ NoPair /\ NoRest
    /\ scraped_insights = <<>>
    /\ \E low \in WtpAmounts, high \in WtpAmounts :
          interview_insights = <<InterviewInsight("analytics", "high", low, high)>>
    /\ opportunities = <<>>
    /\ ranked = FALSE
    /\ top = NoTop
    /\ derived = NoDerived

RankingReturned(ranking) ==
    /\ opportunities' = ranking
    /\ ranked' = TRUE
    /\ UNCHANGED <<scraped_insights, interview_insights, derived>>
    /\ UNCHANGED <<pipelineVars, pairVars, restVars>>

\* reranker.rank_opportunities().
RankOpportunities ==
    \E order \in VisitOrders(all_categories(scraped_insights, interview_insights)) :
        \E ranking \in {rank_opportunities(scraped_insights,
                                           interview_insights, order)} :
            /\ RankingReturned(ranking)
            /\ top' = NoTop

\* reranker.get_top_opportunities(n): a ranking of its own, then the slice.
GetTopOpportunities ==
    \E order \in VisitOrders(all_categories(scraped_insights, interview_insights)) :
        \E ranking \in {rank_opportunities(scraped_insights,
                                           interview_insights, order)} :
            \E n \in 0..MaxTop :
                /\ RankingReturned(ranking)
                /\ top' = [called |-> TRUE, n |-> n,
                           result |-> get_top_opportunities(ranking, n)]

\* Reading insight.has_wtp_data and insight.wtp_midpoint.
ReadWtp ==
    /\ ~derived.read
    /\ derived' = [read |-> TRUE,
                   has_wtp_data |-> has_wtp_data(interview_insights[1]),
                   wtp_midpoint |-> wtp_midpoint(interview_insights[1])]
    /\ UNCHANGED <<scraped_insights, interview_insights, opportunities,
                   ranked, top>>
    /\ UNCHANGED <<pipelineVars, pairVars, restVars>>

NextRank == RankOpportunities \/ GetTopOpportunities

SpecRank == InitRank /\ [][NextRank]_vars

NextBonus == RankOpportunities

SpecBonus == InitBonus /\ [][NextBonus]_vars

NextWtp == ReadWtp

SpecWtp == InitWtp /\ [][NextWtp]_vars

\* ------------------------------------------------------ reranker properties

\* The opportunities of the latest ranking.
Opps == Range(opportunities)

AllKeys == all_categories(scraped_insights, interview_insights)

\* C13: for every ranked opportunity, total_score is (b * 0.65 + i) * 100
\* rounded to two decimals, b being the base score of its category on the 0-1
\* scale, itself a weighted sum whose weights add up to 0.65, and i the
\* interview bonus of its category on the 0-1 scale.
C13_TotalScore ==
    ranked =>
        \A opp \in Opps :
            LET b == calculate_base_score(scraped_insights, opp.category).score
                i == calculate_interview_bonus(interview_insights,
                                               opp.category).bonus
            IN  /\ opp.total_score =
                       RoundHalfEven(RatMul(RatAdd(RatMul(b, Rat(65, 100)), i),
                                            Rat(10000, 1)))
                /\ RatLeq(b, Rat(65, 100))

\* A ranked category with scraped insights and an interview: both terms count.
C13_Witness ==
    /\ ranked
    /\ \E opp \in Opps :
          /\ opp.scraped_count > 0
          /\ opp.interview_validated
          /\ opp.base_score > 0
          /\ opp.total_score > opp.interview_bonus

\* The impact part of an opportunity's interview bonus, in hundredths of a
\* point: the bonus less the validation part and the WTP part.
ImpactPart(opp) ==
    opp.interview_bonus
        - Round2(RatMul(WEIGHT_INTERVIEW_VALIDATED, Hundred))
        - (IF opp.interview_wtp_confirmed THEN 1000 ELSE 0)

ImpactsOf(category) ==
    {i.business_impact :
        i \in Range(_group_interview_by_category(interview_insights, category))}

\* C14: the impact bonus of a category with interviews is 10 points when any
\* of its interview insights has HIGH impact, else 5 when any has MEDIUM,
\* else 2 (all LOW), whatever the number and order of the insights; the
\* reported business_impact is that highest level.
C14_ImpactPrecedence ==
    ranked =>
        \A opp \in Opps :
            opp.interview_validated =>
                LET impacts == ImpactsOf(opp.category)
                    highest == IF "high" \in impacts THEN "high"
                               ELSE IF "medium" \in impacts THEN "medium"
                               ELSE "low"
                IN  /\ opp.business_impact = highest
                    /\ ImpactPart(opp) =
                           CASE highest = "high" -> 1000
                             [] highest = "medium" -> 500
                             [] highest = "low" -> 200

\* Interview insights with impacts LOW, HIGH, MEDIUM, in that order, in one
\* category: the ranking gave the category the HIGH bonus.
C14_Witness ==
    /\ ranked
    /\ Len(interview_insights) = 3
    /\ interview_insights[1].business_impact = "low"
    /\ interview_insights[2].business_impact = "high"
    /\ interview_insights[3].business_impact = "medium"
    /\ \E opp \in Opps : ImpactPart(opp) = 1000

\* C15: every ranked opportunity built from scraped insights with frustration
\* levels in 1..5 reports (in hundredths of a point) a base_score from 0 to
\* 100 points, an interview_bonus from 0 to 35 points, and a total_score
\* within 0.01 of 0.65 * base_score + interview_bonus.
C15_ScoreBounds ==
    ranked =>
        \A opp \in Opps :
            /\ 0 <= opp.base_score /\ opp.base_score <= 10000
            /\ 0 <= opp.interview_bonus /\ opp.interview_bonus <= 3500
            /\ Abs(100 * opp.total_score
                   - (65 * opp.base_score + 100 * opp.interview_bonus)) <= 100

\* A ranked category with the full interview bonus, and scraped insights
\* whose base score is not a multiple of what the rounding keeps.
C15_Witness ==
    /\ ranked
    /\ \A i \in 1..Len(scraped_insights) :
          scraped_insights[i].frustration_level \in 1..5
    /\ \E opp \in Opps :
          /\ opp.interview_bonus = 3500
          /\ opp.base_score > 0
          /\ 100 * opp.total_score # 65 * opp.base_score + 100 * opp.interview_bonus

\* C16: the ranking holds exactly one opportunity for each key of the scraped
\* or the interview grouping that is a ProblemCategory value and none for any
\* other key; a key that is not one removes no other category.
C16_ParsedCategoriesOnly ==
    ranked =>
        /\ {opp.category : opp \in Opps} = AllKeys \cap ProblemCategoryValues
        /\ Len(opportunities) = Cardinality(AllKeys \cap ProblemCategoryValues)

\* A ranking over keys of which one does not parse and two do.
C16_Witness ==
    /\ ranked
    /\ "bogus" \in AllKeys
    /\ Len(opportunities) = 2

\* C17: the ranking is in descending order of total_score, and
\* get_top_opportunities(n) returned its first min(n, length) opportunities,
\* none of which scores lower than one it left out.
C17_Descending ==
    /\ ranked =>
          \A i \in 1..(Len(opportunities) - 1) :
              opportunities[i].total_score >= opportunities[i + 1].total_score
    /\ top.called =>
          /\ Len(top.result) = Min(top.n, Len(opportunities))
          /\ top.result = SubSeq(opportunities, 1, Len(top.result))
          /\ \A i \in 1..Len(top.result) :
                \A j \in (Len(top.result) + 1)..Len(opportunities) :
                    top.result[i].total_score >= opportunities[j].total_score

\* A top-1 request on a ranking of categories with different scores, the
\* higher-scoring category having been grouped last.
C17_Witness ==
    /\ top.called
    /\ top.n = 1
    /\ Len(opportunities) >= 2
    /\ opportunities[1].total_score > opportunities[2].total_score
    /\ opportunities[1].category = "pricing"

\* The category keys in grouping order: the keys of the scraped grouping as
\* first inserted, then those of the interview grouping not among them.
GroupingOrder ==
    FirstOccurrences(ScrapedKeys(scraped_insights)
                         \o InterviewKeys(interview_insights), {})

Position(seq, x) == CHOOSE i \in 1..Len(seq) : seq[i] = x

\* Opportunities with equal total_score stand in grouping order of their keys.
TiesInGroupingOrder ==
    \A i \in 1..(Len(opportunities) - 1) :
        opportunities[i].total_score = opportunities[i + 1].total_score =>
            Position(GroupingOrder, opportunities[i].category)
                < Position(GroupingOrder, opportunities[i + 1].category)

\* C18: a rank_opportunities computation over the same two lists returns what
\* the computation before it returned, the same opportunities with the same
\* scores in the same order, and categories with equal total_score appear in
\* grouping order of their keys.
C18_Deterministic ==
    [][/\ ranked => opportunities' = opportunities
       /\ TiesInGroupingOrder']_vars

\* C19: has_wtp_data is true iff a WTP bound is present; wtp_midpoint is
\* (low + high) / 2 when both are present, the present bound when exactly one
\* is, and undefined exactly when neither is, so that has_wtp_data holds iff
\* wtp_midpoint is defined; zero counts as a present bound.
C19_WtpMidpoint ==
    derived.read =>
        LET low == interview_insights[1].wtp_amount_low
            high == interview_insights[1].wtp_amount_high
        IN  /\ derived.has_wtp_data = (low.defined \/ high.defined)
            /\ derived.has_wtp_data = derived.wtp_midpoint.defined
            /\ (low.defined /\ high.defined) =>
                  derived.wtp_midpoint.value = Rat(low.value + high.value, 2)
            /\ (low.defined /\ ~high.defined) =>
                  derived.wtp_midpoint.value = Rat(low.value, 1)
            /\ (~low.defined /\ high.defined) =>
                  derived.wtp_midpoint.value = Rat(high.value, 1)

\* The interview insights of a category that have WTP data.
WithWtpData(category) ==
    SelectSeq(_group_interview_by_category(interview_insights, category),
              has_wtp_data)

\* C20: for every ranked category with an interview insight that has WTP
\* data, interview_avg_wtp is present and is the mean, rounded to two
\* decimals, of wtp_midpoint over exactly the insights with WTP data; it is
\* absent only when no interview insight of the category has WTP data.
C20_AverageWtp ==
    ranked =>
        \A opp \in Opps :
            LET w == WithWtpData(opp.category)
            IN  IF w = <<>> THEN ~opp.interview_avg_wtp.defined
                ELSE /\ opp.interview_avg_wtp.defined
                     /\ \A k \in 1..Len(w) : wtp_midpoint(w[k]).defined
                     /\ opp.interview_avg_wtp.value =
                            Round2(RatDiv(
                                RatSum([k \in 1..Len(w) |->
                                           wtp_midpoint(w[k]).value]),
                                Len(w)))

\* ------------------------------------------- research/interview_storage.py
\* InterviewStorage: participants kept in the interview_participants table
\* of the SQLite file, one connection per call.

MaxParticipantId == 2

ParticipantId(n) == "P00" \o ToString(n)

ParticipantIds == {ParticipantId(n) : n \in 1..MaxParticipantId}

\* datetime values, as <<year, month, day>>.
InterviewDates == {<<2024, 1, 15>>}

\* datetime.isoformat() and datetime.fromisoformat().
TwoDigits(n) == IF n < 10 THEN "0" \o ToString(n) ELSE ToString(n)

Isoformat(date) ==
    ToString(date[1]) \o "-" \o TwoDigits(date[2]) \o "-" \o TwoDigits(date[3])

FromIsoformat(text) == CHOOSE date \in InterviewDates : Isoformat(date) = text

\* How sqlite3 binds a bool, and bool(row["beta_tester"]).
BindBool(b) == IF b THEN 1 ELSE 0

Bool(n) == n # 0

\* The InterviewParticipant values saved: monthly_app_budget is Optional.
InterviewParticipants ==
    [participant_id : ParticipantIds, interview_date : InterviewDates,
     store_vertical : {"fashion", "home goods"},
     monthly_gmv_range : {"$10K-$30K"}, store_age_months : {18},
     team_size : {2}, app_count : {5},
     monthly_app_budget : {Absent, Present(150)}, beta_tester : BOOLEAN]

NoParticipant ==
    [participant_id |-> None, interview_date |-> <<0, 0, 0>>,
     store_vertical |-> None, monthly_gmv_range |-> None,
     store_age_months |-> 0, team_size |-> 0, app_count |-> 0,
     monthly_app_budget |-> Absent, beta_tester |-> FALSE]

\* get_participant found no row: None.
NotFound == [defined |-> FALSE, value |-> NoParticipant]

\* The columns an INSERT or UPDATE of save_participant writes.
ParticipantColumns(id, participant) ==
    [id |-> id, participant_id |-> participant.participant_id,
     interview_date |-> Isoformat(participant.interview_date),
     store_vertical |-> participant.store_vertical,
     monthly_gmv_range |-> participant.monthly_gmv_range,
     store_age_months |-> participant.store_age_months,
     team_size |-> participant.team_size,
     app_count |-> participant.app_count,
     monthly_app_budget |-> participant.monthly_app_budget,
     beta_tester |-> BindBool(participant.beta_tester)]

\* The rows SELECT ... WHERE participant_id = ? matches, in row order.
MatchParticipantId(tbl, participant_id) ==
    SelectSeq(tbl, LAMBDA r : r.participant_id = participant_id)

\* A save_participant that leaves an existing row as it is.
save_participant_KeepExisting(tbl, participant) ==
    IF MatchParticipantId(tbl, participant.participant_id) # <<>>
    THEN Outcome(tbl, participant.participant_id, FALSE)
    ELSE Outcome(Append(tbl, ParticipantColumns(Len(tbl) + 1, participant)),
                 participant.participant_id, FALSE)

\* save_participant: SELECT id ... WHERE participant_id = ?; when a row
\* exists UPDATE all eight other columns WHERE participant_id = ?, otherwise
\* INSERT; commit; return participant.participant_id.
save_participant(tbl, participant) ==
    IF MatchParticipantId(tbl, participant.participant_id) # <<>>
    THEN Outcome([i \in 1..Len(tbl) |->
                     IF tbl[i].participant_id = participant.participant_id
                     THEN ParticipantColumns(tbl[i].id, participant)
                     ELSE tbl[i]],
                 participant.participant_id, FALSE)
    ELSE Outcome(Append(tbl, ParticipantColumns(Len(tbl) + 1, participant)),
                 participant.participant_id, FALSE)

\* get_participant: SELECT * ... WHERE participant_id = ?; fetchone; None
\* when there is no row, otherwise an InterviewParticipant built from the
\* columns.
get_participant(tbl, participant_id) ==
    LET rows == MatchParticipantId(tbl, participant_id)
    IN  IF rows = <<>> THEN NotFound
        ELSE Present(
            [participant_id |-> rows[1].participant_id,
             interview_date |-> FromIsoformat(rows[1].interview_date),
             store_vertical |-> rows[1].store_vertical,
             monthly_gmv_range |-> rows[1].monthly_gmv_range,
             store_age_months |-> rows[1].store_age_months,
             team_size |-> rows[1].team_size,
             app_count |-> rows[1].app_count,
             monthly_app_budget |-> rows[1].monthly_app_budget,
             beta_tester |-> Bool(rows[1].beta_tester)])

\* The record of one InterviewStorage call; latest keeps, for each
\* participant_id, the participant most recently passed to save_participant.
InitInterview ==
    /\ NoPipeline /\ NoPair /\ NoRank
    /\ interview_participants = <<>>
    /\ lookup = [op |-> "none", arg |-> None, ret |-> NotFound,
                 latest |-> [id \in ParticipantIds |-> NotFound]]
    /\ invocations = <<>>
    /\ callers = <<>>

SaveParticipant ==
    \E participant \in InterviewParticipants :
        /\ interview_participants' =
              save_participant(interview_participants, participant).tbl
        /\ lookup' = [op |-> "save_participant",
                      arg |-> participant.participant_id, ret |-> NotFound,
                      latest |-> [lookup.latest EXCEPT
                                     ![participant.participant_id] =
                                        Present(participant)]]
        /\ UNCHANGED <<pipelineVars, pairVars, rankVars, invocations, callers>>

GetParticipant ==
    \E participant_id \in ParticipantIds :
        /\ lookup' = [lookup EXCEPT
                         !.op = "get_participant", !.arg = participant_id,
                         !.ret = get_participant(interview_participants,
                                                 participant_id)]
        /\ UNCHANGED <<pipelineVars, pairVars, rankVars,
                       interview_participants, invocations, callers>>

NextInterview == SaveParticipant \/ GetParticipant

SpecInterview == InitInterview /\ [][NextInterview]_vars

\* C24: participants are upserted by participant_id with full overwrite.
\* After any sequence of save_participant calls the table holds exactly one
\* row for each participant_id saved and none for the others; what
\* get_participant returned for an id is, field by field, the participant
\* most recently saved under that id (None when none was); and a save
\* under one id leaves what get_participant gives for every other id as it
\* was.
C24_ParticipantUpsert ==
    /\ \A id \in ParticipantIds :
          /\ Len(MatchParticipantId(interview_participants, id)) =
                (IF lookup.latest[id].defined THEN 1 ELSE 0)
          /\ get_participant(interview_participants, id) = lookup.latest[id]
    /\ lookup.op = "get_participant" => lookup.ret = lookup.latest[lookup.arg]

\* get_participant after a participant saved earlier was saved again with
\* other fields, next to another participant.
C24_Witness ==
    /\ lookup.op = "get_participant"
    /\ lookup.ret.defined
    /\ Len(interview_participants) = 2
    /\ interview_participants[1].participant_id = lookup.arg
    /\ lookup.ret.value.store_vertical = "home goods"
    /\ ~lookup.ret.value.monthly_app_budget.defined
    /\ lookup.ret.value.beta_tester
    /\ interview_participants[2].store_vertical = "fashion"

====
